---------------------------- MODULE Spec2Model ----------------------------
(***************************************************************************)
(* A model of the Magik server framework: the middleware engine (registry, *)
(* ordering, application), the plugin loader with MagikServer.use(), the   *)
(* event engine and the server shutdown sequence.                          *)
(*                                                                         *)
(* The module holds several specifications over one set of variables:      *)
(*   SpecMw      the middleware engine driven by its public operations;    *)
(*   SpecPlugin  use() / loadPlugin() calls, interleaved at their awaits;  *)
(*   SpecServer  shutdownServer() calls against the server lifecycle;      *)
(*   SpecEvent   on / off / emit / emitAsync of the event engine;          *)
(*   SpecStart   MagikServer.initialize;                                   *)
(*   SpecPreset, SpecOrder, SpecChain   ordering and application on drawn  *)
(*               registries;                                               *)
(*   SpecAuth    the auth configuration and getAuthMiddleware;             *)
(*   SpecRoute   the request handler RouteEngine wraps around a route;     *)
(*   SpecAdapter connect / disconnect / disconnectAll of the Mongoose      *)
(*               adapter and the events of its connections;                *)
(*   SpecSignal  the graceful-shutdown plugin on the server of SpecServer, *)
(*               SpecSignalLive with the fairness of the event loop.       *)
(* Each specification leaves the variables of the others unchanged.        *)
(***************************************************************************)
EXTENDS Integers, Sequences, FiniteSets, TLC

VARIABLES
    registry,           \* MiddlewareEngine.middlewareRegistry, in Map insertion order
    mounted,            \* the application's middleware chain: one entry per app.use()
    lastError,          \* what the last engine operation threw ("none": it returned)
    plugins,            \* PluginEngine.plugins (names)
    loadedPlugins,      \* PluginEngine.loadedPlugins
    pluginRegistry,     \* MagikServer.pluginRegistry, in Map insertion order
    routeCount,         \* RouteEngine.routeCount of every prefix router
    handlers,           \* EventEngine.handlers: per event, the Set's entry list
    listeners,          \* EventEngine.emitter: per event, the listener array
    nextHandler,        \* the number of handler closures created so far
    installLog,         \* the plugins whose onInstall hook has completed, in order
    installCount,       \* per plugin, how often its onInstall hook was invoked
    calls,              \* the asynchronous calls made so far, each with its position
    status,             \* MagikServer.status
    listening,          \* the HTTP server: "no" | "lookup" | "bound" | "delivered" |
                        \* "closed" | "cancelled"
    database,           \* the database configuration of the server: "none" |
                        \* "autoDisconnect" | "keepConnected" | "noAutoConnect" | "noUri"
    authMiddleware,     \* MiddlewareEngine.authMiddleware: its own properties
    roleHandler,        \* MiddlewareEngine.roleHandler ("none": undefined)
    fallbackHandler,    \* MiddlewareEngine.fallbackHandler ("none": undefined)
    resolved,           \* what the last getAuthMiddleware call returned or threw
    requests,           \* the requests a wrapped route handler has been called for
    connections,        \* MongooseAdapter.connections: the entries [service,
                        \* connection] of the Map, in insertion order
    states,             \* MongooseAdapter.states: per service, the connection state
    created,            \* the connections createConnection() has made, each with
                        \* its service and phase: "opening" | "open" | "failed" | "closed"
    connects,           \* the connect() calls made so far, each with its position
    disconnects,        \* the disconnect() and disconnectAll() calls made so far
    shuttingDown,       \* GracefulShutdownPlugin.shuttingDown
    forceShutdownTimer, \* the plugin's timer: "none" | "armed" | "cleared" | "fired"
    exited,             \* process.exit() has been called
    initiate            \* the plugin's initiateShutdown() call, with its position

mwVars == <<registry, mounted, lastError>>
plVars == <<plugins, loadedPlugins, pluginRegistry, routeCount, handlers,
            listeners, nextHandler, installLog, installCount>>
svVars == <<status, listening, database>>
auVars == <<authMiddleware, roleHandler, fallbackHandler, resolved>>
rtVars == <<requests>>
dbVars == <<connections, states, created, connects, disconnects>>
gsVars == <<shuttingDown, forceShutdownTimer, exited, initiate>>
exVars == <<rtVars, dbVars, gsVars>>
vars == <<mwVars, plVars, svVars, auVars, exVars, calls>>

-----------------------------------------------------------------------------
(* Sequence helpers *)

Range(s) == {s[i] : i \in DOMAIN s}

\* The index of the first element of s that equals x (0: none).
RECURSIVE IndexFrom(_, _, _)
IndexFrom(s, x, i) ==
    IF i > Len(s) THEN 0
    ELSE IF s[i] = x THEN i
    ELSE IndexFrom(s, x, i + 1)

IndexOf(s, x) == IndexFrom(s, x, 1)

IsPrefix(s, t) == Len(s) <= Len(t) /\ SubSeq(t, 1, Len(s)) = s

Reverse(s) == [i \in 1..Len(s) |-> s[Len(s) + 1 - i]]

-----------------------------------------------------------------------------
(* Middleware engine *)

ValidCategories ==
    {"security", "session", "parser", "compression", "logging", "static", "custom"}

\* A descriptor's priority is <<>> when the config leaves it out, else <<p>>.
\* An ordering that takes every descriptor to have the default priority.
NoPriority(m) == 0

Priority(m) == IF m.priority = <<>> THEN 0 ELSE m.priority[1]

\* The declared parameter count of a handler value ("obj": a truthy value
\* that is no function, which app.use() refuses).
HandlerArity(h) ==
    CASE h = "fn2" -> 2
      [] h = "fn3" -> 3
      [] h = "fn4" -> 4
      [] OTHER -> 0

RegistryNames(reg) == {reg[i].name : i \in DOMAIN reg}

\* A check that asks for the middleware to be mounted on the application.
MountedOnly(reg, name) == \E k \in DOMAIN mounted : mounted[k].name = name

HasMiddlewareIn(reg, name) == name \in RegistryNames(reg)

HasMiddleware(name) == HasMiddlewareIn(registry, name)

\* A validation that accepts every config.
NeverInvalid(reg, d) == "none"

\* validateMiddleware: the error it throws for config d, "none" when it returns.
ValidateMiddleware(reg, d) ==
    IF d.name = "" THEN "noName"
    ELSE IF d.handler = "none" THEN "noHandler"
    ELSE IF d.category \notin ValidCategories THEN "invalidCategory"
    ELSE IF \E dep \in d.dependencies : ~HasMiddlewareIn(reg, dep)
         THEN "missingDependency"
    ELSE "none"

\* Map.set(name, config): a new key is appended, an existing key keeps its
\* place in the iteration order and takes the new value.
MapSet(reg, d) ==
    IF HasMiddlewareIn(reg, d.name)
    THEN [i \in DOMAIN reg |-> IF reg[i].name = d.name THEN d ELSE reg[i]]
    ELSE Append(reg, d)

\* register(config): the registry afterwards.
RegisterResult(reg, d) ==
    IF ValidateMiddleware(reg, d) = "none" THEN MapSet(reg, d) ELSE reg

\* registerBulk(configs): configs.forEach(register); the first throw ends it,
\* with the configs before it registered. The result is <<registry, error>>.
RECURSIVE RegisterBulkResult(_, _)
RegisterBulkResult(reg, ds) ==
    IF ds = <<>> THEN <<reg, "none">>
    ELSE LET err == ValidateMiddleware(reg, Head(ds)) IN
         IF err # "none" THEN <<reg, err>>
         ELSE RegisterBulkResult(RegisterResult(reg, Head(ds)), Tail(ds))

\* enable(name) / disable(name): the descriptor object's enabled field is set.
SetEnabled(reg, name, value) ==
    [i \in DOMAIN reg |->
        IF reg[i].name = name THEN [reg[i] EXCEPT !.enabled = value] ELSE reg[i]]

\* The comparator orderMiddleware hands to Array.prototype.sort.
Compare(a, b) ==
    IF Priority(a) # Priority(b) THEN Priority(b) - Priority(a)
    ELSE IF b.name \in a.dependencies THEN 1
    ELSE IF a.name \in b.dependencies THEN -1
    ELSE 0

(***************************************************************************)
(* Array.prototype.sort as V8 runs it on an array shorter than 32          *)
(* elements: the leading run is counted (and reversed when strictly        *)
(* descending), then the rest is inserted by binary insertion.  The        *)
(* comparator is called as Compare(pivot, element), so an inconsistent     *)
(* comparator gives the order this procedure gives.                        *)
(***************************************************************************)
RECURSIVE CountRun(_, _, _)
CountRun(arr, idx, desc) ==
    IF idx > Len(arr) THEN Len(arr)
    ELSE LET order == Compare(arr[idx], arr[idx - 1]) IN
         IF (desc /\ order >= 0) \/ (~desc /\ order < 0)
         THEN idx - 1
         ELSE CountRun(arr, idx + 1, desc)

\* The binary search of the insertion: left and right are 0-based bounds.
RECURSIVE BinarySearch(_, _, _, _)
BinarySearch(arr, pivot, left, right) ==
    IF left >= right THEN left
    ELSE LET mid == left + ((right - left) \div 2) IN
         IF Compare(pivot, arr[mid + 1]) < 0
         THEN BinarySearch(arr, pivot, left, mid)
         ELSE BinarySearch(arr, pivot, mid + 1, right)

\* Elements 1..start-1 are sorted; insert the elements from start on.
RECURSIVE BinaryInsertionSort(_, _)
BinaryInsertionSort(arr, start) ==
    IF start > Len(arr) THEN arr
    ELSE LET pivot == arr[start]
             left  == BinarySearch(arr, pivot, 0, start - 1)
             moved == SubSeq(arr, 1, left) \o <<pivot>>
                      \o SubSeq(arr, left + 1, start - 1)
                      \o SubSeq(arr, start + 1, Len(arr))
         IN BinaryInsertionSort(moved, start + 1)

ArraySort(arr) ==
    IF Len(arr) < 2 THEN arr
    ELSE LET desc == Compare(arr[2], arr[1]) < 0
             run  == CountRun(arr, 3, desc)
             made == IF desc
                     THEN Reverse(SubSeq(arr, 1, run)) \o SubSeq(arr, run + 1, Len(arr))
                     ELSE arr
         IN BinaryInsertionSort(made, run + 1)

\* An ordering that takes the disabled descriptors too.
AllEnabled(m) == TRUE

IsEnabled(m) == m.enabled # "false"

\* orderMiddleware: the enabled descriptors, sorted. The engine keeps the
\* result in its orderedMiddleware field, which applyCategory recomputes
\* before every read, so the model keeps no copy of it.
OrderMiddleware(reg) == ArraySort(SelectSeq(reg, IsEnabled))

Names(ms) == [i \in DOMAIN ms |-> ms[i].name]

\* An application that mounts the whole ordered list.
NoCategoryFilter(ms, category) == ms

\* applyCategory's filter of the ordered list.
CategoryFilter(ms, category) == SelectSeq(ms, LAMBDA m : m.category = category)

\* A detection that takes three parameters for an error handler too.
ThreeOrMore(m) == HandlerArity(m.handler) >= 3

IsErrorHandler(m) == HandlerArity(m.handler) = 4

\* app.use(handler) throws when the handler is not a function.
MountThrows(m) == m.handler = "obj"

MountEntry(m) ==
    [name |-> m.name, handler |-> m.handler, errorHandler |-> IsErrorHandler(m)]

\* An application that logs a failed mount and goes on with the rest.
RECURSIVE ApplySkippingFailed(_)
ApplySkippingFailed(ms) ==
    IF ms = <<>> THEN <<(<<>>), "none">>
    ELSE LET rest == ApplySkippingFailed(Tail(ms)) IN
         IF MountThrows(Head(ms)) THEN <<rest[1], "mountFailed">>
         ELSE << <<MountEntry(Head(ms))>> \o rest[1], rest[2] >>

\* applyMiddleware: forEach app.use(handler); a throw is logged and rethrown,
\* so the handlers before it stay mounted. The result is <<entries, error>>.
RECURSIVE ApplyMiddleware(_)
ApplyMiddleware(ms) ==
    IF ms = <<>> THEN <<(<<>>), "none">>
    ELSE IF MountThrows(Head(ms)) THEN <<(<<>>), "mountFailed">>
    ELSE LET rest == ApplyMiddleware(Tail(ms)) IN
         << <<MountEntry(Head(ms))>> \o rest[1], rest[2] >>

-----------------------------------------------------------------------------
(* Bounds and input sets of the middleware specification *)

MaxMounted == 2

MwNames == {"a", "b"}
MwPriorities == {<<5>>, <<10>>}
MwCategories == {"security", "parser"}

\* The well-formed configs offered to register().
MwConfigs ==
    [name : MwNames, category : MwCategories, priority : MwPriorities,
     dependencies : {{}, {"a"}, {"b"}}, enabled : {"undefined"}, handler : {"fn3"}]

\* Configs that validateMiddleware must refuse, and one app.use() refuses.
MwBadConfigs ==
    { [name |-> "", category |-> "security", priority |-> <<5>>,
       dependencies |-> {}, enabled |-> "undefined", handler |-> "fn3"],
      [name |-> "a", category |-> "security", priority |-> <<5>>,
       dependencies |-> {}, enabled |-> "undefined", handler |-> "none"],
      [name |-> "a", category |-> "bogus", priority |-> <<5>>,
       dependencies |-> {}, enabled |-> "undefined", handler |-> "fn3"],
      [name |-> "a", category |-> "security", priority |-> <<5>>,
       dependencies |-> {"zz"}, enabled |-> "undefined", handler |-> "fn3"] }

MwInputs == MwConfigs \cup MwBadConfigs

-----------------------------------------------------------------------------
(* Operations of the middleware engine *)

Register(d) ==
    /\ registry' = RegisterResult(registry, d)
    /\ lastError' = ValidateMiddleware(registry, d)
    /\ UNCHANGED <<mounted, plVars, svVars, auVars, exVars, calls>>

Enable(name) ==
    /\ registry' = SetEnabled(registry, name, "true")
    /\ lastError' = "none"
    /\ UNCHANGED <<mounted, plVars, svVars, auVars, exVars, calls>>

Disable(name) ==
    /\ registry' = SetEnabled(registry, name, "false")
    /\ lastError' = "none"
    /\ UNCHANGED <<mounted, plVars, svVars, auVars, exVars, calls>>

\* An applyCategory that leaves out the descriptors already mounted.
ApplyCategoryOnce(category, max) ==
    LET ordered == OrderMiddleware(registry)
        fresh   == SelectSeq(CategoryFilter(ordered, category),
                             LAMBDA m : \A k \in DOMAIN mounted : mounted[k].name # m.name)
        applied == ApplyMiddleware(fresh)
    IN /\ Len(mounted) + Len(applied[1]) <= max
       /\ mounted' = mounted \o applied[1]
       /\ lastError' = applied[2]
       /\ UNCHANGED <<registry, plVars, svVars, auVars, exVars, calls>>

\* applyCategory(category), as long as the application holds no more than
\* max mounted handlers afterwards.
ApplyCategoryWithin(category, max) ==
    LET ordered == OrderMiddleware(registry)
        applied == ApplyMiddleware(CategoryFilter(ordered, category))
    IN /\ Len(mounted) + Len(applied[1]) <= max
       /\ mounted' = mounted \o applied[1]
       /\ lastError' = applied[2]
       /\ UNCHANGED <<registry, plVars, svVars, auVars, exVars, calls>>

ApplyCategory(category) == ApplyCategoryWithin(category, MaxMounted)

MwInit ==
    /\ registry = <<>>
    /\ mounted = <<>>
    /\ lastError = "none"


-----------------------------------------------------------------------------
(* Auth resolution of the middleware engine.  A requirement is a record:   *)
(* a capability name (isArray FALSE) or a list of roles (isArray TRUE).    *)
(* authMiddleware is a plain object: the model keeps its own properties    *)
(* as a function from names to handlers; a property read that finds no own *)
(* property goes on to Object.prototype.                                   *)

Named(name) == [isArray |-> FALSE, name |-> name, roles |-> <<>>]

RoleList(roles) == [isArray |-> TRUE, name |-> "", roles |-> roles]

\* isRoleArray
IsRoleArray(auth) == auth.isArray

\* Property names every plain object inherits, among the names tried.
ObjectPrototypeKeys == {"toString"}

\* obj[key]: the own property, else the inherited one, else undefined.
PropertyGet(obj, key) ==
    IF key \in DOMAIN obj THEN obj[key]
    ELSE IF key \in ObjectPrototypeKeys THEN "inherited"
    ELSE "undefined"

\* Object.keys(obj): the own property names.
ObjectKeys(obj) == DOMAIN obj

\* delete obj[key]
PropertyDelete(obj, key) == [k \in (DOMAIN obj) \ {key} |-> obj[k]]

\* obj[key] = value
PropertySet(obj, key, value) ==
    [k \in (DOMAIN obj) \cup {key} |-> IF k = key THEN value ELSE obj[k]]

NoResult ==
    [outcome |-> "none", handler |-> "none", calledWith |-> <<>>,
     error |-> "none", named |-> <<>>, available |-> {}]

\* getAuthMiddleware returns a handler: a stored one, or what a factory
\* gives for the requirement it is called with.
Returned(handler, calledWith) ==
    [NoResult EXCEPT !.outcome = "returned", !.handler = handler,
                     !.calledWith = calledWith]

\* getAuthMiddleware throws: the error, the requirement its message holds
\* and the configured names its message lists.
Thrown(error, named, available) ==
    [NoResult EXCEPT !.outcome = "thrown", !.error = error, !.named = named,
                     !.available = available]

GetAuthMiddleware(am, rh, fb, auth) ==
    IF IsRoleArray(auth)
    THEN IF rh = "none" THEN Thrown("noRoleHandler", <<>>, {})
         ELSE Returned(rh, <<auth>>)
    ELSE LET middleware == PropertyGet(am, auth.name) IN
         IF middleware # "undefined" THEN Returned(middleware, <<>>)
         ELSE IF fb # "none" THEN Returned(fb, <<auth>>)
         ELSE Thrown("unknownAuthType", <<auth.name>>, ObjectKeys(am))

\* configureAuth(config): each part of the config that is present replaces
\* the engine's.  config.handlers is <<>> when left out, else <<handlers>>.
ConfiguredHandlers(am, config) ==
    IF config.handlers # <<>> THEN config.handlers[1] ELSE am

ConfiguredRoleHandler(rh, config) ==
    IF config.roleHandler # "none" THEN config.roleHandler ELSE rh

ConfiguredFallback(fb, config) ==
    IF config.fallbackHandler # "none" THEN config.fallbackHandler ELSE fb

\* The inputs of the auth operations.
AuthNames == {"a", "b", "toString"}

AuthHandlers == {"H1", "H2"}

AuthRequirements ==
    {Named(n) : n \in AuthNames \cup {"unknown"}}
       \cup {RoleList(<<"r1", "r2">>), RoleList(<<>>)}

AuthHandlerMaps ==
    { <<>>, ("a" :> "H1"), ("a" :> "H2") @@ ("b" :> "H1") }

AuthConfigs ==
    [handlers : {<<>>} \cup {<<m>> : m \in AuthHandlerMaps},
     roleHandler : {"none", "RH"}, fallbackHandler : {"none", "FB"}]

ConfigureAuth(config) ==
    /\ authMiddleware' = ConfiguredHandlers(authMiddleware, config)
    /\ roleHandler' = ConfiguredRoleHandler(roleHandler, config)
    /\ fallbackHandler' = ConfiguredFallback(fallbackHandler, config)
    /\ UNCHANGED <<resolved, mwVars, plVars, svVars, exVars, calls>>

SetAuthHandler(name, handler) ==
    /\ authMiddleware' = PropertySet(authMiddleware, name, handler)
    /\ UNCHANGED <<roleHandler, fallbackHandler, resolved>>
    /\ UNCHANGED <<mwVars, plVars, svVars, exVars, calls>>

RemoveAuthHandler(name) ==
    /\ authMiddleware' = PropertyDelete(authMiddleware, name)
    /\ UNCHANGED <<roleHandler, fallbackHandler, resolved>>
    /\ UNCHANGED <<mwVars, plVars, svVars, exVars, calls>>

\* A getAuthMiddleware(auth) call.
GetAuth(auth) ==
    /\ resolved' = GetAuthMiddleware(authMiddleware, roleHandler,
                                     fallbackHandler, auth)
    /\ UNCHANGED <<authMiddleware, roleHandler, fallbackHandler>>
    /\ UNCHANGED <<mwVars, plVars, svVars, exVars, calls>>

-----------------------------------------------------------------------------
(* Event engine: registration *)

\* A handler is a record: where it comes from, the number that tells two
\* closures apart, and what it does when invoked ("resolve", "reject": it
\* returns a promise that settles so; "throw": it throws synchronously).
\* Empty is the entry a Set keeps in place of a deleted element.
Empty == [src |-> "empty", n |-> 0, does |-> "nothing"]

EventHandlers(hs, event) == IF event \in DOMAIN hs THEN hs[event] ELSE <<>>

\* handlers.get(event) || new Set(); handlers.add(handler); handlers.set(...)
SetAdd(hs, event, h) ==
    IF event \in DOMAIN hs
    THEN IF h \in Range(hs[event]) THEN hs
         ELSE [hs EXCEPT ![event] = Append(@, h)]
    ELSE hs @@ (event :> <<h>>)

\* emitter.on(event, handler): the listener array takes the handler again.
EmitterOn(ls, event, h) ==
    IF event \in DOMAIN ls
    THEN [ls EXCEPT ![event] = Append(@, h)]
    ELSE ls @@ (event :> <<h>>)

-----------------------------------------------------------------------------
(* Plugins offered to the server *)

PluginNames == {"P1", "P2", "P3"}

\* The descriptor P1 supplies through registerMiddleware.
PluginMiddleware ==
    [name |-> "m1", category |-> "custom", priority |-> <<5>>,
     dependencies |-> {}, enabled |-> "undefined", handler |-> "fn3"]

\* P1 brings routes, an onEvent handler, a middleware descriptor and events;
\* P2 depends on P1 and adds a route to P1's prefix; P3 requires P1's
\* middleware.  routes: <<prefix, number of route definitions>> pairs;
\* beforeStart: the plugin has a beforeStart hook (an async method).
PluginDef(p) ==
    CASE p = "P1" ->
           [pluginDependencies |-> <<>>, requiredMiddleware |-> <<>>,
            routes |-> << <<"/p1", 2>> >>, onEvent |-> <<"beforeStart">>,
            middleware |-> <<PluginMiddleware>>, events |-> <<"afterStart">>,
            beforeStart |-> TRUE]
      [] p = "P2" ->
           [pluginDependencies |-> <<"P1">>, requiredMiddleware |-> <<>>,
            routes |-> << <<"/p1", 1>> >>, onEvent |-> <<>>,
            middleware |-> <<>>, events |-> <<>>, beforeStart |-> TRUE]
      [] OTHER ->
           [pluginDependencies |-> <<>>, requiredMiddleware |-> <<"m1">>,
            routes |-> <<>>, onEvent |-> <<"beforeStart">>,
            middleware |-> <<>>, events |-> <<>>, beforeStart |-> FALSE]

-----------------------------------------------------------------------------
(* Plugin engine.  The state a loadPlugin run reads and writes is passed   *)
(* as a record st: the engine's maps, the router manager's counts, the     *)
(* event engine's handlers, and the call's own stack of loadPlugin frames  *)
(* (one frame per nested loadPlugin, with the index of the dependency its  *)
(* loop is at), its position pc and the error it threw.                    *)

RouteCountOf(rc, prefix) == IF prefix \in DOMAIN rc THEN rc[prefix] ELSE 0

\* A loader that leaves the routes for after the install hook.
RoutesDeferred(rc, routes) == rc

\* routerManager.register(prefix) and one engine.route() per definition.
RECURSIVE RegisterPluginRoutes(_, _)
RegisterPluginRoutes(rc, routes) ==
    IF routes = <<>> THEN rc
    ELSE LET prefix == Head(routes)[1]
             count  == Head(routes)[2]
             rc1    == IF prefix \in DOMAIN rc THEN rc ELSE rc @@ (prefix :> 0)
         IN RegisterPluginRoutes([rc1 EXCEPT ![prefix] = @ + count], Tail(routes))

\* eventEngine.on(event, wrapper) for each event of a list: every wrapper is
\* a new closure, numbered as it is created.
RECURSIVE SubscribeAll(_, _, _)
SubscribeAll(st, src, events) ==
    IF events = <<>> THEN st
    ELSE LET h == [src |-> src, n |-> st.nextHandler + 1, does |-> "resolve"] IN
         SubscribeAll(
            [st EXCEPT !.handlers = SetAdd(@, Head(events), h),
                       !.listeners = EmitterOn(@, Head(events), h),
                       !.nextHandler = @ + 1],
            src, Tail(events))

Fail(st, err) == [st EXCEPT !.pc = "failed", !.err = err]

\* A loadPlugin frame returns: its caller, if any, resumes in a later turn.
Return(st) ==
    LET rest == SubSeq(st.stack, 1, Len(st.stack) - 1) IN
    [st EXCEPT !.stack = rest,
               !.pc = IF rest = <<>> THEN "returned" ELSE "resume"]

\* The install step of loadPlugin: the hook is invoked unless the plugin is
\* recorded loaded.
InstallStep(st, name) ==
    IF name \notin st.loadedPlugins
    THEN [st EXCEPT !.pc = "awaitInstall", !.installCount[name] = @ + 1]
    ELSE Return(st)

\* A loader that checks neither the dependencies nor the middleware.
LoadPluginUnchecked(st) ==
    LET f   == st.stack[Len(st.stack)]
        def == PluginDef(f.plugin)
        st1 == [st EXCEPT !.routeCount = RegisterPluginRoutes(@, def.routes)]
        st2 == SubscribeAll(st1, f.plugin, def.onEvent)
    IN InstallStep(st2, f.plugin)

\* loadPlugin from the top frame's position to its next await (or throw).
RECURSIVE LoadPlugin(_)
LoadPlugin(st) ==
    LET top  == Len(st.stack)
        f    == st.stack[top]
        def  == PluginDef(f.plugin)
    IN IF f.dep <= Len(def.pluginDependencies)
       THEN LET dep == def.pluginDependencies[f.dep] IN
            IF dep \notin st.plugins THEN Fail(st, "unknownDependency")
            ELSE IF dep \notin st.loadedPlugins
                 THEN LoadPlugin([st EXCEPT !.stack =
                                     Append(@, [plugin |-> dep, dep |-> 1])])
                 ELSE LoadPlugin([st EXCEPT !.stack[top].dep = @ + 1])
       ELSE IF \E m \in Range(def.requiredMiddleware) : ~HasMiddlewareIn(st.registry, m)
            THEN Fail(st, "missingMiddleware")
       ELSE LET st1 == [st EXCEPT !.routeCount = RegisterPluginRoutes(@, def.routes)]
                st2 == SubscribeAll(st1, f.plugin, def.onEvent)
            IN InstallStep(st2, f.plugin)

\* The first element of a list that is not in a set (the list holds one).
RECURSIVE FirstMissing(_, _)
FirstMissing(names, present) ==
    IF Head(names) \notin present THEN Head(names)
    ELSE FirstMissing(Tail(names), present)

\* The words of the errors loadPlugin throws.
UnknownDependencyError(name, dep) ==
    <<"Plugin", name, "depends on plugin", dep, "which is not installed">>

MissingMiddlewareError(name, middleware) ==
    <<"Plugin", name, "requires middleware", middleware, "which is not registered">>

\* The message of the error a loadPlugin frame threw, for the frame's plugin
\* and the registry at the throw.
LoadErrorMessage(frame, err, reg) ==
    LET def == PluginDef(frame.plugin) IN
    CASE err = "unknownDependency" ->
           UnknownDependencyError(frame.plugin, def.pluginDependencies[frame.dep])
      [] err = "missingMiddleware" ->
           MissingMiddlewareError(frame.plugin,
               FirstMissing(def.requiredMiddleware, RegistryNames(reg)))
      [] OTHER -> <<>>

\* After the awaited hook has resolved: the plugin is recorded and loaded.
MarkLoaded(st) ==
    LET name == st.stack[Len(st.stack)].plugin IN
    Return([st EXCEPT !.plugins = @ \cup {name},
                      !.loadedPlugins = @ \cup {name}])

\* The awaited nested loadPlugin has returned: the loop takes the next name.
ResumeLoad(st) ==
    LoadPlugin([st EXCEPT !.stack[Len(st.stack)].dep = @ + 1])

-----------------------------------------------------------------------------
(* MagikServer.use *)

\* pluginRegistry.set(name, plugin)
RegistrySet(reg, name) == IF name \in Range(reg) THEN reg ELSE Append(reg, name)

\* use() without its duplicate check.
UseNeverRejects(reg, name) == FALSE

UseRejects(reg, name) == name \in Range(reg)

\* use() after the awaited loadPlugin has resolved.
UseFinish(st, name) ==
    LET def  == PluginDef(name)
        st1  == [st EXCEPT !.pluginRegistry = RegistrySet(@, name)]
        bulk == RegisterBulkResult(st1.registry, def.middleware)
        st2  == [st1 EXCEPT !.registry = bulk[1]]
    IN IF bulk[2] # "none" THEN Fail(st2, bulk[2])
       ELSE [SubscribeAll(st2, name, def.events) EXCEPT !.pc = "done"]

-----------------------------------------------------------------------------
(* The variables of the parts a specification does not drive *)

NoPlugins ==
    /\ plugins = {}
    /\ loadedPlugins = {}
    /\ pluginRegistry = <<>>
    /\ routeCount = <<>>
    /\ handlers = <<>>
    /\ listeners = <<>>
    /\ nextHandler = 0
    /\ installLog = <<>>
    /\ installCount = <<>>

NoServer ==
    /\ status = "OFFLINE"
    /\ listening = "no"
    /\ database = "none"

\* The engine constructed without an auth configuration, and never asked.
NoAuth ==
    /\ authMiddleware = <<>>
    /\ roleHandler = "none"
    /\ fallbackHandler = "none"
    /\ resolved = NoResult

\* No request has reached a wrapped handler.
NoRoute == requests = <<>>

\* The adapter as constructed: no connection, no state, no connect() call.
NoAdapter ==
    /\ connections = <<>>
    /\ states = <<>>
    /\ created = <<>>
    /\ connects = <<>>
    /\ disconnects = <<>>

\* The adapter after connectDatabase() has connected the service.
Connected(service) ==
    /\ connections = <<[service |-> service, connection |-> 1]>>
    /\ states = (service :> "connected")
    /\ created = <<[service |-> service, phase |-> "open"]>>
    /\ connects = <<[service |-> service, pc |-> "returned", made |-> 1,
                     connection |-> 1, state |-> "connected"]>>
    /\ disconnects = <<>>

\* The graceful-shutdown plugin before any signal.
NoSignal ==
    /\ shuttingDown = FALSE
    /\ forceShutdownTimer = "none"
    /\ exited = FALSE
    /\ initiate = [pc |-> "idle", child |-> 0]

NoExtra == NoRoute /\ NoAdapter /\ NoSignal

-----------------------------------------------------------------------------
(* The maps of MongooseAdapter.  connections is iterated by disconnectAll(), *)
(* so it keeps the insertion order of its keys; states is only read by key.  *)

ServiceGet(m, key, default) == IF key \in DOMAIN m THEN m[key] ELSE default

ServiceSet(m, key, value) ==
    IF key \in DOMAIN m THEN [m EXCEPT ![key] = value] ELSE m @@ (key :> value)

ConnectionsHas(cs, service) == \E k \in DOMAIN cs : cs[k].service = service

\* connections.get(service): the connection, 0 for undefined.
ConnectionsGet(cs, service) ==
    IF ConnectionsHas(cs, service)
    THEN cs[CHOOSE k \in DOMAIN cs : cs[k].service = service].connection
    ELSE 0

\* connections.set(service, n): an existing key keeps its place.
ConnectionsSet(cs, service, n) ==
    IF ConnectionsHas(cs, service)
    THEN [k \in DOMAIN cs |->
            IF cs[k].service = service THEN [cs[k] EXCEPT !.connection = n] ELSE cs[k]]
    ELSE Append(cs, [service |-> service, connection |-> n])

ConnectionsDelete(cs, service) ==
    LET Other(e) == e.service # service IN SelectSeq(cs, Other)

\* Array.from(connections.keys()).
ConnectionsKeys(cs) == [k \in DOMAIN cs |-> cs[k].service]

\* createConnection(): a connection that is still to open.
Opening(service) == [service |-> service, phase |-> "opening"]

\* The created connections with connection n in the given phase.
Phase(cr, n, phase) ==
    [k \in DOMAIN cr |-> IF k = n THEN [cr[k] EXCEPT !.phase = phase] ELSE cr[k]]

\* The state map after disconnect(service) up to its await: 'disconnecting'
\* if the adapter keeps a connection for the service.
DisconnectingStates(service) ==
    IF ConnectionsHas(connections, service)
    THEN ServiceSet(states, service, "disconnecting")
    ELSE states

-----------------------------------------------------------------------------
(* SpecMw: the middleware engine under its public operations *)

InitMw == MwInit /\ NoPlugins /\ NoServer /\ NoAuth /\ NoExtra /\ calls = <<>>

NextMw ==
    \/ \E d \in MwInputs : Register(d)
    \/ \E n \in MwNames : Enable(n)
    \/ \E n \in MwNames : Disable(n)
    \/ \E c \in MwCategories : ApplyCategory(c)

SpecMw == InitMw /\ [][NextMw]_vars

-----------------------------------------------------------------------------
(* SpecPlugin: use() and loadPlugin() calls.  A call runs from one await   *)
(* to the next in one step; between two steps of a call any other call     *)
(* may start or continue, as on the event loop.                            *)

MaxCalls == 3

\* How often the application may mount a plugin's middleware.
MaxPluginMounted == 1

\* The state a call's step works on.
StateOf(call) ==
    [registry |-> registry, plugins |-> plugins, loadedPlugins |-> loadedPlugins,
     pluginRegistry |-> pluginRegistry, routeCount |-> routeCount,
     handlers |-> handlers, listeners |-> listeners, nextHandler |-> nextHandler,
     installCount |-> installCount,
     stack |-> call.stack, pc |-> call.pc, err |-> call.err]

\* A direct loadPlugin call has no continuation of its own once it returns.
Settle(kind, pc) == IF kind = "load" /\ pc = "returned" THEN "done" ELSE pc

Commit(cs, i, call, st) ==
    /\ registry' = st.registry
    /\ plugins' = st.plugins
    /\ loadedPlugins' = st.loadedPlugins
    /\ pluginRegistry' = st.pluginRegistry
    /\ routeCount' = st.routeCount
    /\ handlers' = st.handlers
    /\ listeners' = st.listeners
    /\ nextHandler' = st.nextHandler
    /\ installCount' = st.installCount
    /\ calls' = [cs EXCEPT ![i] =
                    [call EXCEPT !.stack = st.stack,
                                 !.pc = Settle(call.kind, st.pc),
                                 !.err = st.err]]

NewCall(kind, name) ==
    [kind |-> kind, plugin |-> name,
     stack |-> <<[plugin |-> name, dep |-> 1]>>, pc |-> "start", err |-> "none"]

\* use(plugin) up to its first await.
UseStart(call) ==
    IF UseRejects(pluginRegistry, call.plugin)
    THEN Fail(StateOf(call), "alreadyRegistered")
    ELSE LoadPlugin(StateOf(call))

StartUse(name) ==
    /\ Len(calls) < MaxCalls
    /\ LET call == NewCall("use", name) IN
       Commit(Append(calls, call), Len(calls) + 1, call, UseStart(call))
    /\ UNCHANGED <<installLog, mounted, lastError, svVars, auVars, exVars>>

StartLoad(name) ==
    /\ Len(calls) < MaxCalls
    /\ LET call == NewCall("load", name) IN
       Commit(Append(calls, call), Len(calls) + 1, call, LoadPlugin(StateOf(call)))
    /\ UNCHANGED <<installLog, mounted, lastError, svVars, auVars, exVars>>

\* The awaited onInstall hook resolves: the hook has run to its end.
HookResolves(i) ==
    /\ calls[i].pc = "awaitInstall"
    /\ installLog' =
          Append(installLog, calls[i].stack[Len(calls[i].stack)].plugin)
    /\ calls' = [calls EXCEPT ![i].pc = "installed"]
    /\ UNCHANGED <<registry, plugins, loadedPlugins, pluginRegistry, routeCount,
                   handlers, listeners, nextHandler, installCount>>
    /\ UNCHANGED <<mounted, lastError, svVars, auVars, exVars>>

\* The hook throws or rejects: nothing catches it up to the caller.
HookRejects(i) ==
    /\ calls[i].pc = "awaitInstall"
    /\ calls' = [calls EXCEPT ![i].pc = "failed", ![i].err = "installFailed"]
    /\ UNCHANGED <<registry, plugins, loadedPlugins, pluginRegistry, routeCount,
                   handlers, listeners, nextHandler, installCount, installLog>>
    /\ UNCHANGED <<mounted, lastError, svVars, auVars, exVars>>

\* What a call does when its pending continuation runs.
Continuation(call) ==
    CASE call.pc = "installed" -> MarkLoaded(StateOf(call))
      [] call.pc = "resume"    -> ResumeLoad(StateOf(call))
      [] OTHER                 -> UseFinish(StateOf(call), call.plugin)

Continue(i) ==
    /\ calls[i].pc \in {"installed", "resume", "returned"}
    /\ Commit(calls, i, calls[i], Continuation(calls[i]))
    /\ UNCHANGED <<installLog, mounted, lastError, svVars, auVars, exVars>>

PlInit ==
    /\ plugins = {}
    /\ loadedPlugins = {}
    /\ pluginRegistry = <<>>
    /\ routeCount = <<>>
    /\ handlers = <<>>
    /\ listeners = <<>>
    /\ nextHandler = 0
    /\ installLog = <<>>
    /\ installCount = [p \in PluginNames |-> 0]
    /\ calls = <<>>

InitPlugin == PlInit /\ MwInit /\ NoServer /\ NoAuth /\ NoExtra

NextPlugin ==
    \/ \E name \in PluginNames : StartUse(name)
    \/ \E name \in PluginNames : StartLoad(name)
    \/ \E i \in DOMAIN calls : HookResolves(i)
    \/ \E i \in DOMAIN calls : HookRejects(i)
    \/ \E i \in DOMAIN calls : Continue(i)
    \/ ApplyCategoryWithin("custom", MaxPluginMounted)

SpecPlugin == InitPlugin /\ [][NextPlugin]_vars

-----------------------------------------------------------------------------
(* Event engine: emitAsync *)

\* The Set iterator's next entry after position cursor (0: none is left).
RECURSIVE NextEntry(_, _)
NextEntry(entries, cursor) ==
    IF cursor >= Len(entries) THEN 0
    ELSE IF entries[cursor + 1] # Empty THEN cursor + 1
    ELSE NextEntry(entries, cursor + 1)

\* An emitAsync that starts every handler without awaiting the one before.
RECURSIVE EmitAllAtOnce(_, _, _)
EmitAllAtOnce(c, entries, event) ==
    LET k == NextEntry(entries, c.cursor) IN
    IF k = 0
    THEN [c EXCEPT !.pc = IF c.awaits = Empty THEN event \o "Done" ELSE event]
    ELSE EmitAllAtOnce([c EXCEPT !.cursor = k, !.awaits = entries[k],
                                 !.trace = Append(@, <<"invoke", event, entries[k].n>>)],
                       entries, event)

\* emitAsync's loop from the iterator position c.cursor to its next await:
\* c is the call's record (awaits: the handler whose promise it awaits),
\* entries the event's Set.  A handler that throws
\* synchronously is caught and the loop goes on in the same turn.  When no
\* entry is left emitAsync returns and pc becomes the event name with "Done".
RECURSIVE EmitAsync(_, _, _)
EmitAsync(c, entries, event) ==
    LET k == NextEntry(entries, c.cursor) IN
    IF k = 0
    THEN [c EXCEPT !.pc = event \o "Done", !.cursor = 0]
    ELSE LET started == [c EXCEPT !.cursor = k, !.awaits = entries[k],
                                  !.trace = Append(@, <<"invoke", event, entries[k].n>>)]
         IN IF entries[k].does = "throw"
            THEN EmitAsync([started EXCEPT !.trace =
                               Append(@, <<"caught", event, entries[k].n>>)],
                           entries, event)
            ELSE [started EXCEPT !.pc = event]

\* The events emitAsync is called for: the server's lifecycle events, and
\* the events of an event engine used on its own.
LifecycleEvents ==
    {"beforeStart", "afterStart", "beforeStop", "afterStop", "routesLoaded"}

EvEvents == {"x"}

\* An emitAsync without the catch: a rejection ends the call.
HandlerSettledRethrows(c, entries, event, h) ==
    IF h.does = "reject"
    THEN [c EXCEPT !.pc = "failed", !.err = "handlerError"]
    ELSE EmitAsync([c EXCEPT !.trace = Append(@, <<"settled", event, h.n>>)],
                   entries, event)

\* The awaited handler settles: a rejection is caught and logged.
HandlerSettled(c, entries, event, h) ==
    EmitAsync([c EXCEPT !.trace =
                  Append(@, <<IF h.does = "reject" THEN "caught" ELSE "settled",
                              event, h.n>>)],
              entries, event)

-----------------------------------------------------------------------------
(* MagikServer.shutdownServer.  A call's record holds its position pc, the *)
(* error it rejected with, the iterator position of the emitAsync it is    *)
(* in, the handler it awaits and the trace of what it has done.            *)

\* The database configurations: "none" has no adapter; the others have
\* one, "autoDisconnect" with a connection URI and both options at their
\* default (true), "keepConnected" the same with autoDisconnect: false,
\* "noAutoConnect" the same with autoConnect: false, "noUri" without
\* connectionOptions.uri.
DisconnectsDatabase == database \in {"autoDisconnect", "noAutoConnect", "noUri"}

\* connectDatabase() calls adapter.connect(): an adapter is configured,
\* autoConnect is not switched off and a URI is given.
ConnectsDatabase == database \in {"autoDisconnect", "keepConnected"}

\* The HTTP server has a handle from the end of listen()'s address lookup
\* until close(); close() calls back with an error when there is none.
HasHandle == listening \in {"bound", "delivered"}

\* server.close(): the handle is closed; a close() during the address
\* lookup of listen() gives up the pending listen (the lookup's callback
\* returns without binding); before listen() it changes nothing.
AfterServerClose ==
    CASE HasHandle -> "closed"
      [] listening = "lookup" -> "cancelled"
      [] OTHER -> listening

\* shutdownServer() up to its first await.
ShutdownStart(c) ==
    IF status = "SHUTTING_DOWN"
    THEN [c EXCEPT !.pc = "done", !.noop = TRUE]
    ELSE EmitAsync([c EXCEPT !.trace = Append(@, <<"emit", "beforeStop", 0>>)],
                   EventHandlers(handlers, "beforeStop"), "beforeStop")

\* A shutdown that goes from the closed listener straight to afterStop.
AfterCloseSkipsDatabase(c) == [c EXCEPT !.pc = "disconnected"]

\* What a shutdown awaits in disconnectAll(): the close of connection n
\* (0: the adapter keeps no connection).
AdapterClose(n) == [src |-> "adapter", n |-> n, does |-> "close"]

\* The service connectDatabase() connects (databaseConfig.primaryService).
PrimaryService == "main"

\* await this.disconnectDatabase(): disconnectAll() is called only when an
\* adapter is configured and autoDisconnect is not switched off.
AfterClose(c) ==
    IF DisconnectsDatabase
    THEN [c EXCEPT !.pc = "disconnecting",
                   !.awaits = AdapterClose(ConnectionsGet(connections, PrimaryService)),
                   !.trace = Append(@, <<"disconnectAll", "", 0>>)]
    ELSE [c EXCEPT !.pc = "disconnected"]

\* The step a resumed shutdownServer() takes from its position, with what
\* the step adds to the trace.
ShutdownResume(c) ==
    CASE c.pc = "beforeStopDone" ->
           [c EXCEPT !.pc = "closing",
                     !.err = IF HasHandle THEN "none" ELSE "notRunning",
                     !.trace = Append(@, <<"close", "", 0>>)]
      [] c.pc = "closed" -> AfterClose(c)
      [] c.pc = "disconnected" ->
           EmitAsync([c EXCEPT !.trace = Append(@, <<"emit", "afterStop", 0>>)],
                     EventHandlers(handlers, "afterStop"), "afterStop")
      [] OTHER ->
           [c EXCEPT !.pc = "done", !.trace = Append(@, <<"offline", "", 0>>)]

NewShutdown ==
    [kind |-> "shutdown", pc |-> "start", err |-> "none", cursor |-> 0,
     awaits |-> Empty, noop |-> FALSE, trace |-> <<>>]

ShutdownServer ==
    /\ Len(calls) < MaxCalls
    /\ calls' = Append(calls, ShutdownStart(NewShutdown))
    /\ status' = "SHUTTING_DOWN"
    /\ UNCHANGED <<listening, database, auVars, exVars, mwVars, plVars>>

\* The handler a call awaits resolves or rejects.
HandlerSettles(i) ==
    /\ calls[i].pc \in LifecycleEvents \cup EvEvents
    /\ calls[i].awaits.does \in {"resolve", "reject"}
    /\ calls' = [calls EXCEPT ![i] =
                    HandlerSettled(@, EventHandlers(handlers, calls[i].pc),
                                   calls[i].pc, calls[i].awaits)]
    /\ UNCHANGED <<svVars, auVars, exVars, mwVars, plVars>>

\* A call resumes after an await that has resolved.
ShutdownContinues(i) ==
    /\ calls[i].pc \in {"beforeStopDone", "closed", "disconnected", "afterStopDone"}
    /\ calls' = [calls EXCEPT ![i] = ShutdownResume(@)]
    /\ status' = IF calls[i].pc = "afterStopDone" THEN "OFFLINE" ELSE status
    /\ listening' = IF calls[i].pc = "beforeStopDone"
                       THEN AfterServerClose ELSE listening
    /\ states' = IF calls[i].pc = "closed" /\ DisconnectsDatabase
                    THEN DisconnectingStates(PrimaryService) ELSE states
    /\ UNCHANGED <<connections, created, connects, disconnects>>
    /\ UNCHANGED <<database, auVars, rtVars, gsVars, mwVars, plVars>>

\* server.close() calls back without an error.
CloseSucceeds(i) ==
    /\ calls[i].pc = "closing"
    /\ calls[i].err = "none"
    /\ calls' = [calls EXCEPT ![i].pc = "closed"]
    /\ UNCHANGED <<svVars, auVars, exVars, mwVars, plVars>>

\* server.close() calls back with an error: the call rejects with it.
CloseFails(i) ==
    /\ calls[i].pc = "closing"
    /\ calls[i].err # "none"
    /\ calls' = [calls EXCEPT ![i].pc = "failed"]
    /\ UNCHANGED <<svVars, auVars, exVars, mwVars, plVars>>

\* A disconnect whose failure would reject the shutdown.
DisconnectPropagates(i, outcome) ==
    /\ calls[i].pc = "disconnecting"
    /\ calls' = [calls EXCEPT
                    ![i].pc = IF outcome = "disconnectFailed" THEN "failed"
                              ELSE "disconnected",
                    ![i].err = IF outcome = "disconnectFailed" THEN outcome ELSE "none",
                    ![i].trace = Append(@, <<outcome, "", 0>>)]
    /\ UNCHANGED <<svVars, auVars, exVars, mwVars, plVars>>

\* disconnectAll() resolves, or rejects and the error is logged.  It
\* resolves after the adapter has closed and dropped its connection; it
\* rejects, the connection kept, when conn.close() does.
DisconnectSettles(i, outcome) ==
    /\ calls[i].pc = "disconnecting"
    /\ outcome = "disconnectFailed" => calls[i].awaits.n # 0
    /\ calls' = [calls EXCEPT ![i].pc = "disconnected",
                              ![i].awaits = Empty,
                              ![i].trace = Append(@, <<outcome, "", 0>>)]
    /\ IF outcome = "disconnectedAll" /\ calls[i].awaits.n # 0
       THEN /\ connections' = ConnectionsDelete(connections, PrimaryService)
            /\ states' = ServiceSet(states, PrimaryService, "disconnected")
            /\ created' = Phase(created, calls[i].awaits.n, "closed")
       ELSE UNCHANGED <<connections, states, created>>
    /\ UNCHANGED <<connects, disconnects>>
    /\ UNCHANGED <<svVars, auVars, rtVars, gsVars, mwVars, plVars>>

\* initialize() reaches listenToServer(): listen() looks the host up.
Listen ==
    /\ listening = "no"
    /\ listening' = "lookup"
    /\ UNCHANGED <<status, database, auVars, exVars, calls, mwVars, plVars>>

\* The lookup ends and the server binds its handle (not after a close()
\* during the lookup: listening is then "cancelled").
Bound ==
    /\ listening = "lookup"
    /\ listening' = "bound"
    /\ UNCHANGED <<status, database, auVars, exVars, calls, mwVars, plVars>>

\* The callback given to listen(): emitAsync('afterStart') to its first await.
ListenCallback ==
    EmitAsync([kind |-> "listenCallback", pc |-> "start", err |-> "none",
               cursor |-> 0, awaits |-> Empty, noop |-> FALSE, trace |-> <<>>],
              EventHandlers(handlers, "afterStart"), "afterStart")

\* The 'listening' event of the HTTP server, emitted if the handle is still
\* there: the listener of addServerEventListeners, then listen()'s callback.
OnListening ==
    /\ listening = "bound"
    /\ listening' = "delivered"
    /\ status' = "ONLINE"
    /\ calls' = Append(calls, ListenCallback)
    /\ UNCHANGED <<database, auVars, exVars, mwVars, plVars>>

\* The handlers registered for the lifecycle events: every handler may
\* resolve or reject, a handler other than the server's own may also throw.
ShutdownHandlers(doesSys, doesUser, doesAfter) ==
    ("afterStart" :> << [src |-> "server", n |-> 4, does |-> "resolve"] >>)
    @@
    ("beforeStop" :> << [src |-> "server", n |-> 1, does |-> doesSys],
                        [src |-> "user", n |-> 2, does |-> doesUser] >>)
    @@ (IF doesAfter = "nothing" THEN <<>>
        ELSE ("afterStop" :> << [src |-> "user", n |-> 3, does |-> doesAfter] >>))

\* The server while initialize() runs: the event system is set up, the
\* plugins are installed, listen() is still to come.
InitServer ==
    /\ status = "STARTING"
    /\ listening = "no"
    /\ database \in {"none", "autoDisconnect", "keepConnected"}
    /\ NoAuth /\ NoRoute /\ NoSignal
    /\ IF ConnectsDatabase THEN Connected(PrimaryService) ELSE NoAdapter
    /\ calls = <<>>
    /\ \E doesSys \in {"resolve", "reject"} :
       \E doesUser \in {"resolve", "reject", "throw"} :
       \E doesAfter \in {"resolve", "throw", "nothing"} :
          handlers = ShutdownHandlers(doesSys, doesUser, doesAfter)
    /\ listeners = <<>>
    /\ plugins = {}
    /\ loadedPlugins = {}
    /\ pluginRegistry = <<>>
    /\ routeCount = <<>>
    /\ nextHandler = 4
    /\ installLog = <<>>
    /\ installCount = <<>>
    /\ MwInit

NextServer ==
    \/ ShutdownServer
    \/ \E i \in DOMAIN calls : HandlerSettles(i)
    \/ \E i \in DOMAIN calls : ShutdownContinues(i)
    \/ \E i \in DOMAIN calls : CloseSucceeds(i)
    \/ \E i \in DOMAIN calls : CloseFails(i)
    \/ \E i \in DOMAIN calls : DisconnectSettles(i, "disconnectedAll")
    \/ \E i \in DOMAIN calls : DisconnectSettles(i, "disconnectFailed")
    \/ Listen
    \/ Bound
    \/ OnListening

SpecServer == InitServer /\ [][NextServer]_vars

-----------------------------------------------------------------------------
(* SpecEvent: the event engine under on, off, emit and emitAsync *)

MaxListeners == 2

MaxEmits == 2

\* The handler functions offered to the engine.
EvHandlers ==
    { [src |-> "user", n |-> 1, does |-> "resolve"],
      [src |-> "user", n |-> 2, does |-> "throw"],
      [src |-> "user", n |-> 3, does |-> "reject"] }

\* handlers.delete(handler): a running iterator keeps the entry's place.
SetDelete(hs, event, h) ==
    [hs EXCEPT ![event] = [k \in DOMAIN @ |-> IF @[k] = h THEN Empty ELSE @[k]]]

\* The index of the last element of s that equals x (0: none).
RECURSIVE LastIndexOf(_, _, _)
LastIndexOf(s, x, i) ==
    IF i = 0 THEN 0
    ELSE IF s[i] = x THEN i
    ELSE LastIndexOf(s, x, i - 1)

RemoveAt(s, k) == [j \in 1..(Len(s) - 1) |-> IF j < k THEN s[j] ELSE s[j + 1]]

\* emitter.off(event, handler): the most recently added instance goes.
EmitterOff(ls, event, h) ==
    IF event \notin DOMAIN ls THEN ls
    ELSE LET k == LastIndexOf(ls[event], h, Len(ls[event])) IN
         IF k = 0 THEN ls ELSE [ls EXCEPT ![event] = RemoveAt(@, k)]

\* emitter.emit(event): the listeners are called in order, each as often as
\* it was added; a listener that throws ends the emit with its error and a
\* promise a listener returns is dropped.
RECURSIVE EmitSync(_, _, _, _)
EmitSync(c, ls, event, k) ==
    IF k > Len(ls) THEN [c EXCEPT !.pc = "returned"]
    ELSE LET called == [c EXCEPT !.trace = Append(@, <<"invoke", event, ls[k].n>>)] IN
         IF ls[k].does = "throw"
         THEN [called EXCEPT !.pc = "thrown", !.err = "handlerError"]
         ELSE EmitSync(called, ls, event, k + 1)

NewEmit(kind) ==
    [kind |-> kind, pc |-> "start", err |-> "none", cursor |-> 0,
     awaits |-> Empty, noop |-> FALSE, trace |-> <<>>]

On(event, h) ==
    /\ Len(EventHandlers(listeners, event)) < MaxListeners
    /\ Len(EventHandlers(handlers, event)) < MaxListeners
    /\ handlers' = SetAdd(handlers, event, h)
    /\ listeners' = EmitterOn(listeners, event, h)
    /\ UNCHANGED <<plugins, loadedPlugins, pluginRegistry, routeCount,
                   nextHandler, installLog, installCount, calls, mwVars, svVars, auVars, exVars>>

\* off(event, handler): with no Set for the event it returns at once.
OffHandlers(hs, event, h) ==
    IF event \in DOMAIN hs THEN SetDelete(hs, event, h) ELSE hs

OffListeners(hs, ls, event, h) ==
    IF event \in DOMAIN hs THEN EmitterOff(ls, event, h) ELSE ls

Off(event, h) ==
    /\ handlers' = OffHandlers(handlers, event, h)
    /\ listeners' = OffListeners(handlers, listeners, event, h)
    /\ UNCHANGED <<plugins, loadedPlugins, pluginRegistry, routeCount,
                   nextHandler, installLog, installCount, calls, mwVars, svVars, auVars, exVars>>

\* emitter.off(event, handler) for every handler of a Set, in its order.
RECURSIVE OffEach(_, _, _)
OffEach(ls, event, entries) ==
    IF entries = <<>> THEN ls
    ELSE OffEach(IF Head(entries) = Empty THEN ls
                 ELSE EmitterOff(ls, event, Head(entries)),
                 event, Tail(entries))

\* handlers.clear(): every entry goes; a running iterator keeps its place
\* and still visits what is added afterwards.
SetClear(entries) == [k \in DOMAIN entries |-> Empty]

\* clearHandlers(event): one emitter.off per handler of the Set, then the
\* Set is cleared and stays in the Map; without a Set nothing happens.
ClearHandlers(event) ==
    /\ handlers' = IF event \in DOMAIN handlers
                   THEN [handlers EXCEPT ![event] = SetClear(@)] ELSE handlers
    /\ listeners' = OffEach(listeners, event, EventHandlers(handlers, event))
    /\ UNCHANGED <<plugins, loadedPlugins, pluginRegistry, routeCount,
                   nextHandler, installLog, installCount, calls, mwVars, svVars, auVars, exVars>>

\* The iterator position of an emitAsync whose Set the engine has dropped:
\* it is past every entry of whatever Set the event gets afterwards.
Orphaned == MaxListeners + 1

\* clearHandlers(): the same for every event, then the Map itself is
\* cleared.  An emitAsync that is awaiting a handler goes on iterating the
\* Set it started with, which is empty and is not the Set a later on()
\* creates.
ClearAllHandlers ==
    /\ listeners' = [e \in DOMAIN listeners |->
                        OffEach(listeners, e, EventHandlers(handlers, e))[e]]
    /\ handlers' = <<>>
    /\ calls' = [i \in DOMAIN calls |->
                    IF calls[i].pc \in LifecycleEvents \cup EvEvents
                    THEN [calls[i] EXCEPT !.cursor = Orphaned] ELSE calls[i]]
    /\ UNCHANGED <<plugins, loadedPlugins, pluginRegistry, routeCount,
                   nextHandler, installLog, installCount, mwVars, svVars, auVars, exVars>>

Emit(event) ==
    /\ Len(calls) < MaxEmits
    /\ calls' = Append(calls, EmitSync(NewEmit("emit"),
                                       EventHandlers(listeners, event), event, 1))
    /\ UNCHANGED <<plVars, mwVars, svVars, auVars, exVars>>

\* emitAsync(event) up to its first await.
EmitAsyncCall(event) ==
    /\ Len(calls) < MaxEmits
    /\ calls' = Append(calls, EmitAsync(NewEmit("emitAsync"),
                                        EventHandlers(handlers, event), event))
    /\ UNCHANGED <<plVars, mwVars, svVars, auVars, exVars>>

InitEvent == NoPlugins /\ NoServer /\ NoAuth /\ NoExtra /\ MwInit /\ calls = <<>>

NextEvent ==
    \/ \E event \in EvEvents, h \in EvHandlers : On(event, h)
    \/ \E event \in EvEvents, h \in EvHandlers : Off(event, h)
    \/ \E event \in EvEvents : ClearHandlers(event)
    \/ ClearAllHandlers
    \/ \E event \in EvEvents : Emit(event)
    \/ \E event \in EvEvents : EmitAsyncCall(event)
    \/ \E i \in DOMAIN calls : HandlerSettles(i)

SpecEvent == InitEvent /\ [][NextEvent]_vars

-----------------------------------------------------------------------------
(* SpecStart: MagikServer.initialize, from the constructed server to the   *)
(* listening one.  calls[1] is the initialize() call; the use() calls it   *)
(* awaits, the beforeStart hooks its handler starts and the callback of    *)
(* listen() are further calls.                                             *)

SecurityPreset ==
    << [name |-> "helmet", category |-> "security", priority |-> <<100>>,
        dependencies |-> {}, enabled |-> "undefined", handler |-> "fn3"],
       [name |-> "cors", category |-> "security", priority |-> <<90>>,
        dependencies |-> {}, enabled |-> "undefined", handler |-> "fn3"] >>

ParserPreset ==
    << [name |-> "json-parser", category |-> "parser", priority |-> <<85>>,
        dependencies |-> {}, enabled |-> "undefined", handler |-> "fn3"],
       [name |-> "urlencoded-parser", category |-> "parser", priority |-> <<84>>,
        dependencies |-> {}, enabled |-> "undefined", handler |-> "fn3"],
       [name |-> "cookie-parser", category |-> "parser", priority |-> <<83>>,
        dependencies |-> {}, enabled |-> "undefined", handler |-> "fn3"],
       [name |-> "method-override", category |-> "parser", priority |-> <<82>>,
        dependencies |-> {}, enabled |-> "undefined", handler |-> "fn3"] >>

\* The registry a middleware engine is constructed with: empty, or (the
\* engine that loads the built-in presets) the presets in their order.
AllPresets == SecurityPreset \o ParserPreset

\* config.plugins of the server configurations tried.
StartConfigs == { <<>>, <<"P2">>, <<"P1", "P2">>, <<"P1", "P2", "P3">> }

\* The routes discoverRoutes() finds in the routes directory.
AppRoutes == << <<"/app", 1>> >>

NewInitialize(config, discovery) ==
    [kind |-> "initialize", pc |-> "start", err |-> "none", cursor |-> 0,
     awaits |-> Empty, noop |-> FALSE, trace |-> <<>>,
     config |-> config, at |-> 0, child |-> 0, discovery |-> discovery]

\* setupEventSystem(): the server's own three lifecycle handlers.  The
\* beforeStart handler starts the plugins' beforeStart hooks ("hooks").
RECURSIVE SystemHandlers(_, _)
SystemHandlers(st, events) ==
    IF events = <<>> THEN st
    ELSE LET h == [src |-> "server", n |-> st.nextHandler + 1,
                   does |-> IF Head(events) = "beforeStart" THEN "hooks"
                            ELSE "resolve"] IN
         SystemHandlers(
            [st EXCEPT !.handlers = SetAdd(@, Head(events), h),
                       !.listeners = EmitterOn(@, Head(events), h),
                       !.nextHandler = @ + 1],
            Tail(events))

\* The plugins' beforeStart hooks the server's handler starts, in the order
\* of the plugin registry, all in one turn (Promise.all over the map).
HookCalls(reg) ==
    LET with == SelectSeq(reg, LAMBDA p : PluginDef(p).beforeStart)
    IN [k \in DOMAIN with |->
          [kind |-> "hook", plugin |-> with[k], stack |-> <<>>,
           pc |-> "running", err |-> "none"]]

\* addRoutes() registers the routes of every plugin in the registry.
RECURSIVE AddPluginRoutes(_, _)
AddPluginRoutes(rc, reg) ==
    IF reg = <<>> THEN rc
    ELSE AddPluginRoutes(RegisterPluginRoutes(rc, PluginDef(Head(reg)).routes),
                         Tail(reg))

InitFailed(c, err) == [c EXCEPT !.pc = "failed", !.err = err]

\* initialize() is called: STARTING, the event system, up to the first await.
InitializeStarts ==
    /\ calls[1].pc = "start"
    /\ status' = "STARTING"
    /\ LET st == SystemHandlers([handlers |-> handlers, listeners |-> listeners,
                                 nextHandler |-> nextHandler],
                                <<"beforeStart", "afterStart", "beforeStop">>)
       IN /\ handlers' = st.handlers
          /\ listeners' = st.listeners
          /\ nextHandler' = st.nextHandler
    /\ calls' = [calls EXCEPT ![1].pc = "eventsReady"]
    /\ UNCHANGED <<plugins, loadedPlugins, pluginRegistry, routeCount,
                   installLog, installCount, mwVars, listening, database, auVars, exVars>>

\* connectDatabase(): it returns at once without an adapter, with
\* autoConnect switched off or without a URI, else connect() is awaited.
ConnectDatabase ==
    /\ calls[1].pc = "eventsReady"
    /\ calls' = [calls EXCEPT ![1].pc =
                    IF ConnectsDatabase THEN "connecting" ELSE "dbReady"]
    /\ IF ConnectsDatabase
       THEN /\ states' = ServiceSet(states, PrimaryService, "connecting")
            /\ created' = Append(created, Opening(PrimaryService))
            /\ connects' = Append(connects,
                   [service |-> PrimaryService, pc |-> "creating",
                    made |-> Len(created) + 1, connection |-> 0, state |-> "none"])
       ELSE UNCHANGED <<states, created, connects>>
    /\ UNCHANGED <<connections, disconnects>>
    /\ UNCHANGED <<plVars, mwVars, svVars, auVars, rtVars, gsVars>>

\* connect() resolves: the adapter keeps the connection.
ConnectResolves ==
    /\ calls[1].pc = "connecting"
    /\ calls' = [calls EXCEPT ![1].pc = "dbReady"]
    /\ connections' = ConnectionsSet(connections, PrimaryService, Len(created))
    /\ states' = ServiceSet(states, PrimaryService, "connected")
    /\ created' = Phase(created, Len(created), "open")
    /\ connects' = [connects EXCEPT ![Len(connects)].pc = "returned",
                                    ![Len(connects)].connection = Len(created),
                                    ![Len(connects)].state = "connected"]
    /\ UNCHANGED disconnects
    /\ UNCHANGED <<plVars, mwVars, svVars, auVars, rtVars, gsVars>>

\* connect() rejects: initialize() rethrows and the status is ERROR.
ConnectRejects ==
    /\ calls[1].pc = "connecting"
    /\ calls' = [calls EXCEPT ![1] = InitFailed(@, "connectFailed")]
    /\ status' = "ERROR"
    /\ created' = Phase(created, Len(created), "failed")
    /\ connects' = [connects EXCEPT ![Len(connects)].pc = "rejected"]
    /\ UNCHANGED <<connections, states, disconnects>>
    /\ UNCHANGED <<plVars, mwVars, listening, database, auVars, rtVars, gsVars>>

\* startServer(): emitAsync('beforeStart') up to its first await.
StartServerCalls(cs, c) ==
    LET e == EmitAsync([c EXCEPT !.trace = Append(@, <<"emit", "beforeStart", 0>>)],
                       EventHandlers(handlers, "beforeStart"), "beforeStart")
        cs1 == [cs EXCEPT ![1] = e]
    IN IF e.pc = "beforeStart" /\ e.awaits.does = "hooks"
       THEN cs1 \o HookCalls(pluginRegistry)
       ELSE cs1

\* After the plugin loop: addRoutes() up to 'await discoverRoutes()', or
\* with route discovery disabled startServer().
AfterPlugins(c) ==
    /\ IF c.discovery
       THEN /\ routeCount' = AddPluginRoutes(routeCount, pluginRegistry)
            /\ calls' = [calls EXCEPT ![1] = [c EXCEPT !.pc = "discovering"]]
       ELSE /\ routeCount' = routeCount
            /\ calls' = StartServerCalls(calls, c)
    /\ UNCHANGED <<registry, plugins, loadedPlugins, pluginRegistry, handlers,
                   listeners, nextHandler, installCount>>

\* The plugin loop at config.plugins[k]: use(plugin) up to its first await.
PluginsFrom(c, k) ==
    IF k <= Len(c.config)
    THEN LET call == NewCall("use", c.config[k])
             cs == Append([calls EXCEPT ![1] =
                              [c EXCEPT !.pc = "use", !.at = k,
                                        !.child = Len(calls) + 1]], call)
         IN Commit(cs, Len(calls) + 1, call, UseStart(call))
    ELSE AfterPlugins(c)

\* The security and the parser categories are applied, then the first
\* plugin is installed.
ApplyAndInstall ==
    /\ calls[1].pc = "dbReady"
    /\ LET security == ApplyMiddleware(CategoryFilter(OrderMiddleware(registry), "security"))
           parser == ApplyMiddleware(CategoryFilter(OrderMiddleware(registry), "parser"))
       IN IF security[2] # "none"
          THEN /\ mounted' = mounted \o security[1]
               /\ lastError' = security[2]
               /\ status' = "ERROR"
               /\ calls' = [calls EXCEPT ![1] = InitFailed(@, security[2])]
               /\ UNCHANGED <<registry, plVars>>
          ELSE IF parser[2] # "none"
          THEN /\ mounted' = mounted \o security[1] \o parser[1]
               /\ lastError' = parser[2]
               /\ status' = "ERROR"
               /\ calls' = [calls EXCEPT ![1] = InitFailed(@, parser[2])]
               /\ UNCHANGED <<registry, plVars>>
          ELSE /\ mounted' = mounted \o security[1] \o parser[1]
               /\ lastError' = "none"
               /\ status' = status
               /\ PluginsFrom(calls[1], 1)
    /\ UNCHANGED <<installLog, listening, database, auVars, exVars>>

\* The awaited use() has resolved: the loop takes the next plugin.
UseResolved ==
    /\ calls[1].pc = "use"
    /\ calls[calls[1].child].pc = "done"
    /\ PluginsFrom(calls[1], calls[1].at + 1)
    /\ UNCHANGED <<installLog, mounted, lastError, svVars, auVars, exVars>>

\* The awaited use() has rejected: initialize() rethrows.
UseRejected ==
    /\ calls[1].pc = "use"
    /\ calls[calls[1].child].pc = "failed"
    /\ calls' = [calls EXCEPT ![1] = InitFailed(@, calls[calls[1].child].err)]
    /\ status' = "ERROR"
    /\ UNCHANGED <<plVars, mwVars, listening, database, auVars, exVars>>

\* discoverRoutes() resolves: the routes found are registered, the routers
\* are installed and emitAsync('routesLoaded') runs to its first await.
DiscoverResolves(found) ==
    /\ calls[1].pc = "discovering"
    /\ routeCount' = RegisterPluginRoutes(routeCount, found)
    /\ calls' = [calls EXCEPT ![1] =
          EmitAsync([@ EXCEPT !.trace =
                        Append(@, <<"installRoutes", "",
                                    Cardinality(DOMAIN routeCount')>>)],
                    EventHandlers(handlers, "routesLoaded"), "routesLoaded")]
    /\ UNCHANGED <<registry, plugins, loadedPlugins, pluginRegistry, handlers,
                   listeners, nextHandler, installLog, installCount,
                   mounted, lastError, svVars, auVars, exVars>>

DiscoverRejects ==
    /\ calls[1].pc = "discovering"
    /\ calls' = [calls EXCEPT ![1] = InitFailed(@, "discoverFailed")]
    /\ status' = "ERROR"
    /\ UNCHANGED <<plVars, mwVars, listening, database, auVars, exVars>>

\* addRoutes() has returned: startServer().
RoutesAdded ==
    /\ calls[1].pc = "routesLoadedDone"
    /\ calls' = StartServerCalls(calls, calls[1])
    /\ UNCHANGED <<plVars, mwVars, svVars, auVars, exVars>>

\* A plugin's beforeStart hook resolves or rejects.
BeforeStartSettles(i, outcome) ==
    /\ calls[i].kind = "hook"
    /\ calls[i].pc = "running"
    /\ calls' = [calls EXCEPT ![i].pc = outcome]
    /\ UNCHANGED <<plVars, mwVars, svVars, auVars, exVars>>

Hooks == {i \in DOMAIN calls : calls[i].kind = "hook"}

\* The server's beforeStart handler settles as its Promise.all does:
\* rejected as soon as one hook has rejected, resolved once all have.
SystemHandlerSettles ==
    /\ calls[1].pc = "beforeStart"
    /\ calls[1].awaits.does = "hooks"
    /\ \/ \E i \in Hooks : calls[i].pc = "rejected"
       \/ \A i \in Hooks : calls[i].pc = "resolved"
    /\ calls' = [calls EXCEPT ![1] =
          HandlerSettled(@, EventHandlers(handlers, "beforeStart"), "beforeStart",
               [@.awaits EXCEPT !.does =
                   IF \E i \in Hooks : calls[i].pc = "rejected"
                   THEN "reject" ELSE "resolve"])]
    /\ UNCHANGED <<plVars, mwVars, svVars, auVars, exVars>>

\* startServer() has returned: the server's listeners are added and
\* listen() is called; initialize() returns.
StartListening ==
    /\ calls[1].pc = "beforeStartDone"
    /\ calls' = [calls EXCEPT ![1].pc = "done",
                              ![1].trace = Append(@, <<"listen", "", 0>>)]
    /\ listening' = "lookup"
    /\ UNCHANGED <<status, database, auVars, exVars, plVars, mwVars>>

InitStart ==
    /\ status = "OFFLINE"
    /\ listening = "no"
    /\ database \in {"none", "autoDisconnect", "noAutoConnect", "noUri"}
    /\ NoAuth /\ NoExtra
    /\ \E config \in StartConfigs, discovery \in BOOLEAN :
          calls = <<NewInitialize(config, discovery)>>
    /\ registry \in {<<>>, AllPresets}
    /\ mounted = <<>>
    /\ lastError = "none"
    /\ plugins = {}
    /\ loadedPlugins = {}
    /\ pluginRegistry = <<>>
    /\ routeCount = <<>>
    /\ handlers = <<>>
    /\ listeners = <<>>
    /\ nextHandler = 0
    /\ installLog = <<>>
    /\ installCount = [p \in PluginNames |-> 0]

NextStart ==
    \/ InitializeStarts
    \/ ConnectDatabase
    \/ ConnectResolves
    \/ ConnectRejects
    \/ ApplyAndInstall
    \/ \E i \in DOMAIN calls : HookResolves(i)
    \/ \E i \in DOMAIN calls : HookRejects(i)
    \/ \E i \in DOMAIN calls : Continue(i)
    \/ UseResolved
    \/ UseRejected
    \/ \E found \in {<<>>, AppRoutes} : DiscoverResolves(found)
    \/ DiscoverRejects
    \/ RoutesAdded
    \/ \E i \in DOMAIN calls : BeforeStartSettles(i, "resolved")
    \/ \E i \in DOMAIN calls : BeforeStartSettles(i, "rejected")
    \/ SystemHandlerSettles
    \/ \E i \in DOMAIN calls : HandlerSettles(i)
    \/ StartListening
    \/ Bound
    \/ OnListening

SpecStart == InitStart /\ [][NextStart]_vars

-----------------------------------------------------------------------------
(* SpecPreset: applyCategory on an engine that holds the security and the  *)
(* parser preset, registered in any order.                                 *)

MaxPresetMounted == 6

\* Every order the descriptors of a list can be registered in.
Orders(ds) ==
    { [k \in DOMAIN ds |-> ds[f[k]]] :
        f \in {g \in [DOMAIN ds -> DOMAIN ds] :
                  \A j, k \in DOMAIN ds : g[j] = g[k] => j = k} }

InitPreset ==
    /\ registry \in {RegisterBulkResult(<<>>, ds)[1] : ds \in Orders(AllPresets)}
    /\ mounted = <<>>
    /\ lastError = "none"
    /\ NoPlugins
    /\ NoServer
    /\ NoAuth /\ NoExtra
    /\ calls = <<>>

NextPreset ==
    \E category \in {"security", "parser"} :
        ApplyCategoryWithin(category, MaxPresetMounted)

SpecPreset == InitPreset /\ [][NextPreset]_vars

-----------------------------------------------------------------------------
(* SpecOrder: orderMiddleware on registries of three descriptors.  Every   *)
(* registry drawn here is one register() can build: a name registered      *)
(* again keeps its place and may then list any registered name, itself     *)
(* included, as a dependency.                                              *)

MaxOrderMounted == 3

OrderNames == <<"a", "b", "c">>

OrderDependencies == {{}, {"a"}, {"b"}, {"c"}}

OrderRegistries ==
    { [k \in 1..3 |->
         [name |-> ns[k], category |-> "security", priority |-> ps[k],
          dependencies |-> ds[k], enabled |-> "undefined", handler |-> "fn3"]] :
        ns \in Orders(OrderNames),
        ps \in [1..3 -> MwPriorities],
        ds \in [1..3 -> OrderDependencies] }

InitOrder ==
    /\ registry \in OrderRegistries
    /\ mounted = <<>>
    /\ lastError = "none"
    /\ NoPlugins
    /\ NoServer
    /\ NoAuth /\ NoExtra
    /\ calls = <<>>

NextOrder ==
    \/ \E n \in Range(OrderNames) : Disable(n)
    \/ ApplyCategoryWithin("security", MaxOrderMounted)

SpecOrder == InitOrder /\ [][NextOrder]_vars

-----------------------------------------------------------------------------
(* SpecChain: the application's middleware chain under applyCategory, with *)
(* handlers of every declared parameter count and handlers app.use()       *)
(* refuses.  The registry holds a (priority 5), b and c (priority 10), so  *)
(* the order is b, c, a.                                                   *)

MaxChainMounted == 4

ChainHandlers == {"fn2", "fn3", "fn4", "obj"}

ChainDescriptor(name, priority, category, handler) ==
    [name |-> name, category |-> category, priority |-> <<priority>>,
     dependencies |-> {}, enabled |-> "undefined", handler |-> handler]

ChainRegistries ==
    { << ChainDescriptor("a", 5, "security", hs[1]),
         ChainDescriptor("b", 10, "security", hs[2]),
         ChainDescriptor("c", 10, category, hs[3]) >> :
        hs \in [1..3 -> ChainHandlers], category \in MwCategories }

\* The config a caller registers in place of a refused handler.
ChainRepair == ChainDescriptor("c", 10, "security", "fn3")

InitChain ==
    /\ registry \in ChainRegistries
    /\ mounted = <<>>
    /\ lastError = "none"
    /\ NoPlugins
    /\ NoServer
    /\ NoAuth /\ NoExtra
    /\ calls = <<>>

NextChain ==
    \/ \E category \in MwCategories : ApplyCategoryWithin(category, MaxChainMounted)
    \/ \E n \in Range(OrderNames) : Disable(n)
    \/ \E n \in Range(OrderNames) : Enable(n)
    \/ Register(ChainRepair)

SpecChain == InitChain /\ [][NextChain]_vars

-----------------------------------------------------------------------------
(* SpecAuth: the auth configuration of a middleware engine constructed     *)
(* with or without an auth config, under configureAuth, setAuthHandler,    *)
(* removeAuthHandler and getAuthMiddleware calls.                          *)

InitAuth ==
    /\ \E config \in AuthConfigs :
          /\ authMiddleware = ConfiguredHandlers(<<>>, config)
          /\ roleHandler = ConfiguredRoleHandler("none", config)
          /\ fallbackHandler = ConfiguredFallback("none", config)
    /\ resolved = NoResult
    /\ MwInit
    /\ NoPlugins
    /\ NoServer
    /\ NoExtra
    /\ calls = <<>>

NextAuth ==
    \/ \E config \in AuthConfigs : ConfigureAuth(config)
    \/ \E name \in AuthNames, handler \in AuthHandlers : SetAuthHandler(name, handler)
    \/ \E name \in AuthNames : RemoveAuthHandler(name)
    \/ \E auth \in AuthRequirements : GetAuth(auth)

SpecAuth == InitAuth /\ [][NextAuth]_vars

-----------------------------------------------------------------------------
(* SpecRoute: RouteEngine.wrapHandler, the request handler a route is      *)
(* mounted with.  A request's record holds the terminal handler it was     *)
(* routed to, the wrapper's position, the calls made to the continuation   *)
(* next (by whom, with which argument), the status the wrapper sent and    *)
(* the error that left the wrapper's promise.                              *)

MaxRequests == 2

RouteErrors == {"e1", "e2"}

\* The terminal handlers tried: no function at all; one that returns
\* undefined; one that throws; one that returns a promise that resolves or
\* rejects later; one that calls next() itself and then throws.
RouteHandlers ==
    { [does |-> d, err |-> "none"] : d \in {"notFunction", "returns", "resolves"} }
    \cup { [does |-> d, err |-> e] :
              d \in {"throws", "rejects", "nextThenThrows"}, e \in RouteErrors }

NewRequest(handler, useNext) ==
    [handler |-> handler, useNext |-> useNext, pc |-> "start",
     continued |-> <<>>, sent |-> 0, escaped |-> "none"]

\* catch (error) { next(error) }
Caught(r, err) ==
    [r EXCEPT !.pc = "done",
              !.continued = Append(@, [by |-> "wrapper", err |-> err])]

\* The wrapper from the request to its first await.  Both branches of
\* 'if (useNext)' make the same call.
WrapHandler(r) ==
    CASE r.handler.does = "notFunction" ->
           [r EXCEPT !.pc = "done", !.sent = 500]
      [] r.handler.does = "throws" ->
           Caught(r, r.handler.err)
      [] r.handler.does = "nextThenThrows" ->
           Caught([r EXCEPT !.continued = Append(@, [by |-> "handler", err |-> "none"])],
                  r.handler.err)
      [] OTHER ->
           [r EXCEPT !.pc = "awaiting"]

\* A wrapper whose await is outside the try block: a rejection leaves it.
WrapHandlerUncaught(r) ==
    IF r.handler.does = "rejects"
    THEN [r EXCEPT !.pc = "done", !.escaped = r.handler.err]
    ELSE [r EXCEPT !.pc = "done"]

\* The wrapper after 'await handler(req, res, next)' has settled.
WrapHandlerResume(r) ==
    IF r.handler.does = "rejects"
    THEN Caught(r, r.handler.err)
    ELSE [r EXCEPT !.pc = "done"]

\* Express calls the mounted wrapper for a request.
Request(handler, useNext) ==
    /\ Len(requests) < MaxRequests
    /\ requests' = Append(requests, WrapHandler(NewRequest(handler, useNext)))
    /\ UNCHANGED <<mwVars, plVars, svVars, auVars, dbVars, gsVars, calls>>

\* What the handler returned settles and the wrapper goes on.
RouteHandlerSettles(i) ==
    /\ requests[i].pc = "awaiting"
    /\ requests' = [requests EXCEPT ![i] = WrapHandlerResume(@)]
    /\ UNCHANGED <<mwVars, plVars, svVars, auVars, dbVars, gsVars, calls>>

InitRoute ==
    /\ NoRoute /\ NoAdapter /\ NoSignal
    /\ MwInit /\ NoPlugins /\ NoServer /\ NoAuth
    /\ calls = <<>>

NextRoute ==
    \/ \E handler \in RouteHandlers, useNext \in BOOLEAN : Request(handler, useNext)
    \/ \E i \in DOMAIN requests : RouteHandlerSettles(i)

SpecRoute == InitRoute /\ [][NextRoute]_vars

-----------------------------------------------------------------------------
(* SpecAdapter: MongooseAdapter under connect, disconnect, disconnectAll  *)
(* and the events of its connections.  created lists the connections      *)
(* mongoose.createConnection() has made; a connect() call's record holds   *)
(* its service, its position, the connection it made (0: none) and the     *)
(* connection and state it returned; a disconnect call's record holds the  *)
(* service and connection it is closing and, for disconnectAll(), the      *)
(* services still to come.                                                 *)

MaxConnects == 2

MaxDisconnects == 1

Services == {"main", "analytics"}

\* What a listener attached by connect() writes for the event of its name.
ConnectionEvents == {"connected", "disconnected", "error"}

NewConnect(service) ==
    [service |-> service, pc |-> "start", made |-> 0,
     connection |-> 0, state |-> "none"]

\* connect() up to its first await: the connection of the service if the
\* map holds one, with the state recorded for the service, else
\* createConnection() and the wait for it to open.
Connect(service) ==
    /\ Len(connects) < MaxConnects
    /\ IF ConnectionsHas(connections, service)
       THEN /\ connects' = Append(connects,
                   [NewConnect(service) EXCEPT
                       !.pc = "returned",
                       !.connection = ConnectionsGet(connections, service),
                       !.state = ServiceGet(states, service, "connected")])
            /\ UNCHANGED <<connections, states, created>>
       ELSE /\ states' = ServiceSet(states, service, "connecting")
            /\ created' = Append(created, Opening(service))
            /\ connects' = Append(connects,
                   [NewConnect(service) EXCEPT !.pc = "creating",
                                               !.made = Len(created) + 1])
            /\ UNCHANGED connections
    /\ UNCHANGED <<disconnects, mwVars, plVars, svVars, auVars, rtVars, gsVars, calls>>

\* asPromise() resolves: the call attaches its listeners to the connection,
\* stores it and returns it.
CreateResolves(i) ==
    /\ connects[i].pc = "creating"
    /\ connections' = ConnectionsSet(connections, connects[i].service, connects[i].made)
    /\ states' = ServiceSet(states, connects[i].service, "connected")
    /\ created' = Phase(created, connects[i].made, "open")
    /\ connects' = [connects EXCEPT ![i].pc = "returned",
                                    ![i].connection = connects[i].made,
                                    ![i].state = "connected"]
    /\ UNCHANGED <<disconnects, mwVars, plVars, svVars, auVars, rtVars, gsVars, calls>>

\* asPromise() rejects: connect() rejects, the state stays 'connecting'.
CreateRejects(i) ==
    /\ connects[i].pc = "creating"
    /\ created' = Phase(created, connects[i].made, "failed")
    /\ connects' = [connects EXCEPT ![i].pc = "rejected"]
    /\ UNCHANGED <<connections, states>>
    /\ UNCHANGED <<disconnects, mwVars, plVars, svVars, auVars, rtVars, gsVars, calls>>

\* An open connection emits 'connected', 'disconnected' or 'error': the
\* listener connect() attached records it for the service of that connect(),
\* whether or not the adapter still keeps the connection.
ConnectionEvent(n, event) ==
    /\ created[n].phase = "open"
    /\ states' = ServiceSet(states, created[n].service, event)
    /\ UNCHANGED <<connections, created, connects, disconnects>>
    /\ UNCHANGED <<mwVars, plVars, svVars, auVars, rtVars, gsVars, calls>>

NewDisconnect(kind) ==
    [kind |-> kind, service |-> "", pc |-> "start", conn |-> 0, rest |-> <<>>]

\* disconnect(service) up to its await, as the call d makes it: without a
\* connection it returns 'NO_CONNECTION' (disconnectAll() awaits that and
\* goes on), else conn.close() is awaited.
DisconnectBegin(d, service, rest) ==
    IF ConnectionsHas(connections, service)
    THEN [d EXCEPT !.service = service, !.pc = "closing", !.rest = rest,
                   !.conn = ConnectionsGet(connections, service)]
    ELSE [d EXCEPT !.service = service, !.rest = rest, !.conn = 0,
                   !.pc = IF d.kind = "disconnect" THEN "noConnection" ELSE "next"]

Disconnect(service) ==
    /\ Len(disconnects) < MaxDisconnects
    /\ disconnects' = Append(disconnects,
                             DisconnectBegin(NewDisconnect("disconnect"), service, <<>>))
    /\ states' = DisconnectingStates(service)
    /\ UNCHANGED <<connections, created, connects>>
    /\ UNCHANGED <<mwVars, plVars, svVars, auVars, rtVars, gsVars, calls>>

\* disconnectAll() up to its first await: the keys of the Map as they are
\* now, and disconnect() of the first.
DisconnectAll ==
    /\ Len(disconnects) < MaxDisconnects
    /\ LET services == ConnectionsKeys(connections)
           d == NewDisconnect("disconnectAll")
       IN IF services = <<>>
          THEN /\ disconnects' = Append(disconnects, [d EXCEPT !.pc = "done"])
               /\ states' = states
          ELSE /\ disconnects' = Append(disconnects,
                       DisconnectBegin(d, Head(services), Tail(services)))
               /\ states' = DisconnectingStates(Head(services))
    /\ UNCHANGED <<connections, created, connects>>
    /\ UNCHANGED <<mwVars, plVars, svVars, auVars, rtVars, gsVars, calls>>

\* conn.close() resolves: the entry of the service is deleted, whatever
\* connection it holds by now, and the state is 'disconnected'.
CloseResolves(i) ==
    /\ disconnects[i].pc = "closing"
    /\ connections' = ConnectionsDelete(connections, disconnects[i].service)
    /\ states' = ServiceSet(states, disconnects[i].service, "disconnected")
    /\ created' = Phase(created, disconnects[i].conn, "closed")
    /\ disconnects' = [disconnects EXCEPT
                          ![i].pc = IF disconnects[i].kind = "disconnect"
                                    THEN "ok" ELSE "next"]
    /\ UNCHANGED connects
    /\ UNCHANGED <<mwVars, plVars, svVars, auVars, rtVars, gsVars, calls>>

\* conn.close() rejects: disconnect() and a disconnectAll() awaiting it
\* reject, the connection stays in the Map with the state 'disconnecting'.
CloseRejects(i) ==
    /\ disconnects[i].pc = "closing"
    /\ disconnects' = [disconnects EXCEPT ![i].pc = "rejected"]
    /\ UNCHANGED <<connections, states, created, connects>>
    /\ UNCHANGED <<mwVars, plVars, svVars, auVars, rtVars, gsVars, calls>>

\* disconnectAll() resumes after a disconnect(): the next of its services,
\* or the end.
DisconnectAllNext(i) ==
    /\ disconnects[i].pc = "next"
    /\ LET d == disconnects[i] IN
       IF d.rest = <<>>
       THEN /\ disconnects' = [disconnects EXCEPT ![i].pc = "done"]
            /\ states' = states
       ELSE /\ disconnects' = [disconnects EXCEPT
                                  ![i] = DisconnectBegin(d, Head(d.rest), Tail(d.rest))]
            /\ states' = DisconnectingStates(Head(d.rest))
    /\ UNCHANGED <<connections, created, connects>>
    /\ UNCHANGED <<mwVars, plVars, svVars, auVars, rtVars, gsVars, calls>>

InitAdapter ==
    /\ NoAdapter /\ NoRoute /\ NoSignal
    /\ MwInit /\ NoPlugins /\ NoServer /\ NoAuth
    /\ calls = <<>>

NextAdapter ==
    \/ \E service \in Services : Connect(service)
    \/ \E i \in DOMAIN connects : CreateResolves(i)
    \/ \E i \in DOMAIN connects : CreateRejects(i)
    \/ \E n \in DOMAIN created, event \in ConnectionEvents : ConnectionEvent(n, event)
    \/ \E service \in Services : Disconnect(service)
    \/ DisconnectAll
    \/ \E i \in DOMAIN disconnects : CloseResolves(i)
    \/ \E i \in DOMAIN disconnects : CloseRejects(i)
    \/ \E i \in DOMAIN disconnects : DisconnectAllNext(i)

SpecAdapter == InitAdapter /\ [][NextAdapter]_vars

-----------------------------------------------------------------------------
(* SpecSignal: the graceful-shutdown plugin installed on the server of     *)
(* SpecServer.  A signal runs initiateShutdown() to its await; the timer   *)
(* it sets ends the process when it fires; process.exit() ends everything. *)

Signals == {"SIGTERM", "SIGINT"}

Running == ~exited

\* The process receives a signal: initiateShutdown(signal, server) up to
\* 'await server.shutdownServer()', or to its end when the status is not
\* ONLINE (the timer is then set and cleared in the same turn).
Signal(sig) ==
    /\ Running
    /\ IF shuttingDown
       THEN UNCHANGED <<gsVars, svVars, calls>>
       ELSE /\ shuttingDown' = TRUE
            /\ exited' = exited
            /\ IF status = "ONLINE"
               THEN /\ Len(calls) < MaxCalls
                    /\ calls' = Append(calls, ShutdownStart(NewShutdown))
                    /\ status' = "SHUTTING_DOWN"
                    /\ forceShutdownTimer' = "armed"
                    /\ initiate' = [pc |-> "awaiting", child |-> Len(calls) + 1]
                    /\ UNCHANGED <<listening, database>>
               ELSE /\ forceShutdownTimer' = "cleared"
                    /\ initiate' = [pc |-> "complete", child |-> 0]
                    /\ UNCHANGED <<svVars, calls>>
    /\ UNCHANGED <<mwVars, plVars, auVars, rtVars, dbVars>>

\* The awaited shutdownServer() has resolved (the timer is cleared) or
\* rejected (the timer is cleared and the process exits with code 1).
InitiateResumes ==
    /\ Running
    /\ initiate.pc = "awaiting"
    /\ calls[initiate.child].pc \in {"done", "failed"}
    /\ forceShutdownTimer' = "cleared"
    /\ initiate' = [initiate EXCEPT !.pc =
                        IF calls[initiate.child].pc = "done" THEN "complete"
                        ELSE "exit"]
    /\ exited' = (calls[initiate.child].pc = "failed")
    /\ UNCHANGED shuttingDown
    /\ UNCHANGED <<mwVars, plVars, svVars, auVars, rtVars, dbVars, calls>>

\* The timer fires after shutdownTimeout: process.exit(1).
ForceShutdown ==
    /\ Running
    /\ forceShutdownTimer = "armed"
    /\ forceShutdownTimer' = "fired"
    /\ exited' = TRUE
    /\ UNCHANGED <<shuttingDown, initiate>>
    /\ UNCHANGED <<mwVars, plVars, svVars, auVars, rtVars, dbVars, calls>>

InitSignal == InitServer

\* The steps of the server while the process runs.
ServerSettles ==
    \/ \E i \in DOMAIN calls : HandlerSettles(i)
    \/ \E i \in DOMAIN calls : ShutdownContinues(i)
    \/ \E i \in DOMAIN calls : CloseSucceeds(i)
    \/ \E i \in DOMAIN calls : CloseFails(i)
    \/ \E i \in DOMAIN calls : DisconnectSettles(i, "disconnectedAll")
    \/ \E i \in DOMAIN calls : DisconnectSettles(i, "disconnectFailed")
    \/ Bound
    \/ OnListening

NextSignal ==
    \/ \E sig \in Signals : Signal(sig)
    \/ InitiateResumes
    \/ ForceShutdown
    \/ Running /\ ShutdownServer
    \/ Running /\ Listen
    \/ Running /\ \E i \in DOMAIN calls : HandlerSettles(i)
    \/ Running /\ \E i \in DOMAIN calls : ShutdownContinues(i)
    \/ Running /\ \E i \in DOMAIN calls : CloseSucceeds(i)
    \/ Running /\ \E i \in DOMAIN calls : CloseFails(i)
    \/ Running /\ \E i \in DOMAIN calls : DisconnectSettles(i, "disconnectedAll")
    \/ Running /\ \E i \in DOMAIN calls : DisconnectSettles(i, "disconnectFailed")
    \/ Running /\ Bound
    \/ Running /\ OnListening

SpecSignal == InitSignal /\ [][NextSignal]_vars

\* What the event loop is sure to run: a continuation whose promise has
\* settled, a callback that is due, a timer that is set.  When a signal
\* arrives, when shutdownServer() is called by the application and how far
\* initialize() gets are up to the environment.
SpecSignalLive ==
    /\ SpecSignal
    /\ WF_vars(Running /\ ServerSettles)
    /\ WF_vars(InitiateResumes)
    /\ WF_vars(ForceShutdown)

-----------------------------------------------------------------------------
(* Claims about the middleware engine, checked under SpecMw *)

Position(ms, name) == IndexOf(Names(ms), name)

\* A descriptor with the enabled flag left out: what register() stored.
Stored(m) == [m EXCEPT !.enabled = "undefined"]

\* C1: for two enabled descriptors of one category where B lists A in its
\* dependencies (and A does not list B), the order applyCategory mounts them
\* in places A before B, also when B has the higher priority.
C1_DependencyOrderedFirst ==
    \A i, j \in DOMAIN registry :
        LET A == registry[i]
            B == registry[j]
            order == CategoryFilter(OrderMiddleware(registry), B.category)
        IN (/\ A.name # B.name
            /\ IsEnabled(A) /\ IsEnabled(B)
            /\ A.category = B.category
            /\ A.name \in B.dependencies
            /\ B.name \notin A.dependencies)
           => Position(order, A.name) < Position(order, B.name)

\* C7: a registered descriptor is never replaced: whatever operation runs,
\* every descriptor of the registry keeps its place and every field that
\* register() stored (enable and disable change the enabled flag only).
C7_RegisteredNeverReplaced ==
    [][\A i \in DOMAIN registry :
          /\ i \in DOMAIN registry'
          /\ Stored(registry'[i]) = Stored(registry[i])]_vars

\* C18: two enabled descriptors of equal priority are ordered as they stand
\* in the registry, the one registered first before the other.
C18_EqualPriorityKeepsRegistrationOrder ==
    \A i, j \in DOMAIN registry :
        (/\ i < j
         /\ registry[i].enabled # "false" /\ registry[j].enabled # "false"
         /\ registry[i].priority = registry[j].priority)
        => Position(OrderMiddleware(registry), registry[i].name)
              < Position(OrderMiddleware(registry), registry[j].name)

\* The names of the descriptors of a category that are not disabled.
EnabledOf(category) ==
    {m.name : m \in {x \in Range(registry) :
                        x.category = category /\ x.enabled # "false"}}

\* C20: a call that mounts anything is applyCategory(c) for one category c,
\* and what it mounts is, once each, the handlers of exactly the descriptors
\* that have category c and are enabled at the call; it changes no descriptor.
C20_MountsCategoryAndEnabledOnly ==
    [][mounted' # mounted =>
        LET added == SubSeq(mounted', Len(mounted) + 1, Len(mounted')) IN
        /\ IsPrefix(mounted, mounted')
        /\ registry' = registry
        /\ \E c \in ValidCategories :
              /\ Range(Names(added)) = EnabledOf(c)
              /\ Len(added) = Cardinality(EnabledOf(c))]_vars

C20_Witness ==
    /\ Names(mounted) = <<"b", "a">>
    /\ \E i, j \in DOMAIN registry :
          /\ registry[i].name = "a" /\ registry[i].enabled = "true"
          /\ registry[j].name = "b" /\ registry[j].enabled = "false"
          /\ registry[i].category = registry[j].category
          /\ registry[i].priority = <<10>> /\ registry[j].priority = <<5>>

\* What the claim calls a descriptor register() must reject.
Rejectable(d) ==
    \/ d.name = ""
    \/ d.handler = "none"
    \/ d.category \notin ValidCategories
    \/ \E dep \in d.dependencies :
          \A i \in DOMAIN registry : registry[i].name # dep

RegisterErrors == {"noName", "noHandler", "invalidCategory", "missingDependency"}

\* C22: in every state, register() of a descriptor with an empty name, no
\* handler, a category outside the seven or a dependency that is not in the
\* registry throws and gives back the registry as it was; and every
\* register() step that ends in such an error leaves the registry unchanged.
C22_InvalidRegisterRejected ==
    /\ [](/\ Cardinality(ValidCategories) = 7
          /\ \A d \in MwInputs :
                Rejectable(d) =>
                   /\ ValidateMiddleware(registry, d) \in RegisterErrors
                   /\ RegisterResult(registry, d) = registry)
    /\ [][lastError' \in RegisterErrors => registry' = registry]_vars

\* A register() that named an unregistered dependency was refused while the
\* registry held two descriptors.
C22_Witness ==
    /\ lastError = "missingDependency"
    /\ Len(registry) = 2

-----------------------------------------------------------------------------
(* Claims about the ordering, checked under SpecOrder *)

\* The positions of the registry whose descriptor is not disabled.
EnabledPositions == {i \in DOMAIN registry : registry[i].enabled # "false"}

\* C21: for every registry the ordering ends without an error and its
\* result holds every enabled descriptor exactly once and nothing else;
\* being a function of the registry alone, it is the same whenever the
\* registry is the same.
C21_OrderIsPermutationOfEnabled ==
    LET ordered == OrderMiddleware(registry) IN
    /\ Len(ordered) = Cardinality(EnabledPositions)
    /\ \A i \in EnabledPositions :
          Cardinality({k \in DOMAIN ordered : ordered[k] = registry[i]}) = 1
    /\ \A k \in DOMAIN ordered :
          \E i \in EnabledPositions : ordered[k] = registry[i]

\* Two enabled descriptors of equal priority, the first listing the second,
\* a third one disabled: the order mounted is not the registry's.
C21_Witness ==
    LET ordered == OrderMiddleware(registry) IN
    /\ Cardinality(EnabledPositions) = 2
    /\ \E i, j \in EnabledPositions :
          /\ i < j
          /\ registry[i].priority = registry[j].priority
          /\ registry[j].name \in registry[i].dependencies
          /\ ordered = <<registry[j], registry[i]>>
    /\ Names(mounted) = Names(ordered)

\* The descriptor at position i needs the one at position j, directly or
\* through other descriptors of the registry.
RECURSIVE NeedsWithin(_, _, _)
NeedsWithin(i, j, steps) ==
    /\ steps > 0
    /\ \/ registry[j].name \in registry[i].dependencies
       \/ \E k \in DOMAIN registry :
             /\ registry[k].name \in registry[i].dependencies
             /\ NeedsWithin(k, j, steps - 1)

Needs(i, j) == NeedsWithin(i, j, Len(registry))

\* C32: of two enabled descriptors of equal priority of which one lists the
\* other in its dependencies (the dependencies forming no cycle through the
\* two), the one listed comes first in the order, wherever the two stand in
\* the registry.
C32_EqualPriorityDependencyFirst ==
    \A i, j \in EnabledPositions :
        (/\ i # j
         /\ registry[i].priority = registry[j].priority
         /\ registry[j].name \in registry[i].dependencies
         /\ ~Needs(j, i))
        => Position(OrderMiddleware(registry), registry[j].name)
              < Position(OrderMiddleware(registry), registry[i].name)

-----------------------------------------------------------------------------
(* Claims about the middleware chain, checked under SpecChain *)

\* What a step appended to the chain.
Added == SubSeq(mounted', Len(mounted) + 1, Len(mounted'))

\* The registered descriptor of a name.
Descriptor(reg, name) == reg[IndexOf(Names(reg), name)]

\* The enabled descriptors of a category in the order of application.
OrderedOf(category) ==
    SelectSeq(OrderMiddleware(registry), LAMBDA m : m.category = category)

\* The position of the first descriptor of a list whose handler app.use()
\* refuses (one past the end: none).
RECURSIVE FirstRefused(_, _)
FirstRefused(ms, k) ==
    IF k > Len(ms) THEN k
    ELSE IF ms[k].handler = "obj" THEN k
    ELSE FirstRefused(ms, k + 1)

\* C28: whatever a step mounts is the registered handler of its descriptor,
\* mounted as an error handler when the handler declares 4 parameters and
\* as a standard handler when it declares 2 or 3, whatever the descriptor's
\* name, category, priority or enabled flag.
C28_ArityDecidesErrorPath ==
    [][\A k \in DOMAIN Added :
          LET m == Descriptor(registry, Added[k].name) IN
          /\ Added[k].handler = m.handler
          /\ m.handler = "fn4" => Added[k].errorHandler
          /\ m.handler \in {"fn2", "fn3"} => ~Added[k].errorHandler]_vars

\* The chain holds handlers of 2, 3 and 4 declared parameters.
C28_Witness ==
    /\ \E k \in DOMAIN mounted : mounted[k].handler = "fn2" /\ ~mounted[k].errorHandler
    /\ \E k \in DOMAIN mounted : mounted[k].handler = "fn3" /\ ~mounted[k].errorHandler
    /\ \E k \in DOMAIN mounted : mounted[k].handler = "fn4" /\ mounted[k].errorHandler

\* C29: a step in which applyCategory raised is the application of a
\* category whose ordered list holds a handler app.use() refuses, at
\* position k: the step mounted exactly the descriptors before k, in order,
\* and none from k on; and a step that mounted handlers of a list holding
\* such a handler ended in that error.
C29_MountFailureStopsThePass ==
    [][(lastError' = "mountFailed" \/ mounted' # mounted) =>
        \E category \in ValidCategories :
            LET list == OrderedOf(category)
                k    == FirstRefused(list, 1)
            IN /\ Names(Added) = Names(SubSeq(list, 1, k - 1))
               /\ IsPrefix(mounted, mounted')
               /\ lastError' = IF k <= Len(list) THEN "mountFailed" ELSE "none"]_vars

\* applyCategory raised at the second of three descriptors: b is mounted,
\* c, whose handler was refused, and a, ordered after it, are not.
C29_Witness ==
    /\ lastError = "mountFailed"
    /\ Names(mounted) = <<"b">>
    /\ Names(OrderedOf("security")) = <<"b", "c", "a">>
    /\ Descriptor(registry, "c").handler = "obj"

\* C30: every step leaves the chain it found as a prefix of the new chain,
\* and what a step appends is, for one category, the enabled handlers of
\* that category in order (up to a refused one), whether or not the chain
\* holds them already; a step that does not apply appends nothing.
C30_ChainGrowsByAppending ==
    [][/\ IsPrefix(mounted, mounted')
       /\ mounted' # mounted =>
            /\ registry' = registry
            /\ \E category \in ValidCategories :
                  LET list == OrderedOf(category) IN
                  Added = [k \in 1..(FirstRefused(list, 1) - 1) |->
                              [name |-> list[k].name, handler |-> list[k].handler,
                               errorHandler |-> list[k].handler = "fn4"]]
       /\ registry' # registry => mounted' = mounted]_vars

\* applyCategory('security') ran twice on one registry: the chain holds the
\* two handlers of the category twice, in the same order.
C30_Witness ==
    /\ Len(mounted) = 4
    /\ Names(mounted) = <<"b", "a", "b", "a">>
    /\ SubSeq(mounted, 1, 2) = SubSeq(mounted, 3, 4)
    /\ Names(OrderedOf("security")) = <<"b", "a">>

-----------------------------------------------------------------------------
(* Claims about auth resolution, checked under SpecAuth *)

\* What the engine resolves a requirement to in this state.
Resolve(auth) ==
    GetAuthMiddleware(authMiddleware, roleHandler, fallbackHandler, auth)

\* The resolution is the fallback handler's result, or, with no fallback
\* handler, the error that holds the name and lists the configured names.
FallsBackOrThrows(result, auth, configured, fb) ==
    IF fb # "none"
    THEN result = Returned(fb, <<auth>>)
    ELSE /\ result.outcome = "thrown"
         /\ result.named = <<auth.name>>
         /\ result.available = configured

\* C25: in every configuration getAuthMiddleware(x) gives handlers[x] for a
\* configured name x, roleHandler(x) for a role list when a roleHandler is
\* configured, fallbackHandler(x) for any other string when a
\* fallbackHandler is configured, and throws in every other case: for a role
\* list the error that no roleHandler is configured, for a name the error
\* that holds the name and lists the configured names.
C25_AuthResolutionTotal ==
    \A auth \in AuthRequirements :
        IF auth.isArray
        THEN IF roleHandler # "none"
             THEN Resolve(auth) = Returned(roleHandler, <<auth>>)
             ELSE /\ Resolve(auth).outcome = "thrown"
                  /\ Resolve(auth).error = "noRoleHandler"
        ELSE IF auth.name \in DOMAIN authMiddleware
             THEN Resolve(auth) = Returned(authMiddleware[auth.name], <<>>)
             ELSE FallsBackOrThrows(Resolve(auth), auth, DOMAIN authMiddleware,
                                    fallbackHandler)

\* C26: resolution follows the configuration at every step: a name whose
\* handler a step sets or replaces resolves to that handler afterwards, a
\* name whose handler a step removes resolves afterwards to the fallback
\* handler's result or to the error and not to the removed handler, and a
\* getAuthMiddleware call changes no part of the configuration.
C26_ResolutionFollowsConfiguration ==
    [][/\ \A name \in AuthNames :
             LET after == GetAuthMiddleware(authMiddleware', roleHandler',
                                            fallbackHandler', Named(name))
             IN /\ name \in DOMAIN authMiddleware'
                      => after = Returned(authMiddleware'[name], <<>>)
                /\ (name \in DOMAIN authMiddleware /\ name \notin DOMAIN authMiddleware')
                      => /\ after # Returned(authMiddleware[name], <<>>)
                         /\ FallsBackOrThrows(after, Named(name),
                                              DOMAIN authMiddleware',
                                              fallbackHandler')
       /\ resolved' # resolved
             => UNCHANGED <<authMiddleware, roleHandler, fallbackHandler>>]_vars

-----------------------------------------------------------------------------
(* Claims about the plugin loader and use(), checked under SpecPlugin *)

\* The step in which a new call is made.
CallStarts == Len(calls') = Len(calls) + 1

NewestCall == calls'[Len(calls')]

\* The step in which the install hook awaited by call i throws or rejects.
HookFails(i) == calls[i].pc = "awaitInstall" /\ calls'[i].pc = "failed"

\* The plugin whose hook call i awaits.
Installing(i) == calls[i].stack[Len(calls[i].stack)].plugin

RoutesRegistered(rc, name) ==
    \A k \in DOMAIN PluginDef(name).routes :
        RouteCountOf(rc, PluginDef(name).routes[k][1]) >= PluginDef(name).routes[k][2]

OnEventRegistered(hs, name) ==
    \A k \in DOMAIN PluginDef(name).onEvent :
        \E h \in Range(EventHandlers(hs, PluginDef(name).onEvent[k])) : h.src = name

MiddlewareRegistered(reg, name) ==
    \A k \in DOMAIN PluginDef(name).middleware :
        HasMiddlewareIn(reg, PluginDef(name).middleware[k].name)

\* The handlers of the plugin's registerEvents() are subscribed.
EventsRegistered(hs, name) ==
    \A k \in DOMAIN PluginDef(name).events :
        \E h \in Range(EventHandlers(hs, PluginDef(name).events[k])) : h.src = name

\* A use() call of the plugin has got past its install hook and finished.
UsedPastHook(cs, name) ==
    \E j \in DOMAIN cs :
        cs[j].kind = "use" /\ cs[j].plugin = name /\ cs[j].pc = "done"

\* C2: a loadPlugin call for a plugin with dependencies that has settled
\* (other than by its own install hook failing) has installed every
\* dependency first and the plugin after it: in the install log each
\* dependency completes before the plugin.
C2_DependencyInstalledFirst ==
    \A i \in DOMAIN calls :
        (/\ calls[i].kind = "load"
         /\ calls[i].pc \in {"done", "failed"}
         /\ calls[i].err # "installFailed")
        => \A dep \in Range(PluginDef(calls[i].plugin).pluginDependencies) :
              /\ IndexOf(installLog, dep) > 0
              /\ IndexOf(installLog, calls[i].plugin) > 0
              /\ IndexOf(installLog, dep) < IndexOf(installLog, calls[i].plugin)

\* C3: the install hook of a plugin is invoked at most once, whatever the
\* interleaving of the calls (stated for the runs in which no hook fails).
C3_InstallHookAtMostOnce ==
    (\A i \in DOMAIN calls : calls[i].err # "installFailed")
    => \A name \in PluginNames : installCount[name] <= 1

\* C4: a use() call for a name that an earlier use() has put into the plugin
\* registry throws "already registered" and invokes no hook and registers no
\* route, middleware or event handler.
C4_DuplicateUseRejected ==
    [][(/\ CallStarts
        /\ NewestCall.kind = "use"
        /\ NewestCall.plugin \in Range(pluginRegistry))
       => /\ NewestCall.pc = "failed"
          /\ NewestCall.err = "alreadyRegistered"
          /\ UNCHANGED <<registry, plugins, loadedPlugins, pluginRegistry,
                         routeCount, handlers, listeners, installCount,
                         installLog>>]_vars

C4_Witness ==
    \E i \in DOMAIN calls : calls[i].err = "alreadyRegistered"

\* C5 as claimed: when the install hook awaited by a use() call fails, the
\* call fails with that error, the plugin is not recorded loaded, and the
\* plugin's routes, its event handlers (those of onEvent and those of
\* registerEvents()) and its middleware are registered.
C5_PartialEffectsAsClaimed ==
    [][\A i \in DOMAIN calls :
          (HookFails(i) /\ calls[i].kind = "use")
          => /\ calls'[i].err = "installFailed"
             /\ UNCHANGED <<plugins, loadedPlugins>>
             /\ RoutesRegistered(routeCount', Installing(i))
             /\ OnEventRegistered(handlers', Installing(i))
             /\ EventsRegistered(handlers', Installing(i))
             /\ MiddlewareRegistered(registry', Installing(i))]_vars

\* C5 as amended: when the install hook awaited by a use() call fails, the
\* call fails with that error and records nothing as loaded; the plugin's
\* routes and onEvent handlers are registered already and no later step
\* removes a route or a handler; the failing step registers no middleware
\* and subscribes no handler, and in every state the plugin's middleware
\* and the handlers of its registerEvents() are registered only if a use()
\* call of that plugin has got past its install hook.
C5_PartialEffects ==
    [][/\ \A i \in DOMAIN calls :
            (HookFails(i) /\ calls[i].kind = "use")
            => /\ calls'[i].err = "installFailed"
               /\ UNCHANGED <<plugins, loadedPlugins, registry, handlers>>
               /\ RoutesRegistered(routeCount', Installing(i))
               /\ OnEventRegistered(handlers', Installing(i))
       /\ \A prefix \in DOMAIN routeCount :
            /\ prefix \in DOMAIN routeCount'
            /\ routeCount'[prefix] >= routeCount[prefix]
       /\ \A event \in DOMAIN handlers :
            /\ event \in DOMAIN handlers'
            /\ IsPrefix(handlers[event], handlers'[event])
       /\ \A name \in PluginNames :
            /\ (PluginDef(name).middleware # <<>>
                  /\ MiddlewareRegistered(registry', name))
               => UsedPastHook(calls', name)
            /\ (PluginDef(name).events # <<>>
                  /\ EventsRegistered(handlers', name))
               => UsedPastHook(calls', name)]_vars

\* use(P1) has failed at its install hook: the routes and the onEvent
\* handler of P1 are registered, its middleware and the handler of its
\* registerEvents() are not.
C5_Witness ==
    \E i \in DOMAIN calls :
        /\ calls[i].kind = "use"
        /\ calls[i].plugin = "P1"
        /\ calls[i].err = "installFailed"
        /\ RoutesRegistered(routeCount, "P1")
        /\ OnEventRegistered(handlers, "P1")
        /\ PluginDef("P1").middleware # <<>>
        /\ ~MiddlewareRegistered(registry, "P1")
        /\ PluginDef("P1").events # <<>>
        /\ ~EventsRegistered(handlers, "P1")

\* C6: a loadPlugin call for a plugin that is recorded loaded changes
\* nothing: no hook is invoked, no route is registered, no handler subscribed.
C6_ReloadChangesNothing ==
    [][(/\ CallStarts
        /\ NewestCall.kind = "load"
        /\ NewestCall.plugin \in loadedPlugins)
       => UNCHANGED <<registry, plugins, loadedPlugins, pluginRegistry,
                      routeCount, handlers, listeners, installCount,
                      installLog>>]_vars

\* A new call that runs loadPlugin: a direct call, or a use() call that got
\* past its own duplicate check.
LoadStarts ==
    /\ CallStarts
    /\ \/ NewestCall.kind = "load"
       \/ NewestCall.kind = "use" /\ NewestCall.err # "alreadyRegistered"

\* The message of the error the newest call threw.
NewestMessage ==
    LoadErrorMessage(NewestCall.stack[Len(NewestCall.stack)], NewestCall.err,
                     registry)

\* C23: a loadPlugin(p) that starts while a name of p.pluginDependencies is
\* not in the engine's plugin map fails with the unknown-dependency error,
\* whose message holds p and such a dependency; it has registered none of
\* p's routes or event handlers, invoked no install hook and left the loaded
\* set (and the plugin map) as it was.
C23_UnknownDependencyFailsClean ==
    [][(/\ LoadStarts
        /\ \E dep \in Range(PluginDef(NewestCall.plugin).pluginDependencies) :
              dep \notin plugins)
       => /\ NewestCall.pc = "failed"
          /\ NewestCall.err = "unknownDependency"
          /\ NewestCall.plugin \in Range(NewestMessage)
          /\ \E dep \in Range(PluginDef(NewestCall.plugin).pluginDependencies) :
                dep \notin plugins /\ dep \in Range(NewestMessage)
          /\ UNCHANGED <<routeCount, handlers, listeners, installCount,
                         installLog, loadedPlugins, plugins>>]_vars

\* loadPlugin(P2) failed for its dependency although P1's routes and
\* handlers are registered: P1's install hook is still awaited.
C23_Witness ==
    \E i, j \in DOMAIN calls :
        /\ calls[i].plugin = "P2" /\ calls[i].err = "unknownDependency"
        /\ calls[j].plugin = "P1" /\ calls[j].pc = "awaitInstall"
        /\ i > j
        /\ RouteCountOf(routeCount, "/p1") = 2

\* The required middleware names of a plugin that the registry lacks.
MissingRequired(name) ==
    {m \in Range(PluginDef(name).requiredMiddleware) :
        \A i \in DOMAIN registry : registry[i].name # m}

\* C24: a loadPlugin(p) that starts with all of p's dependencies loaded gets
\* past the middleware check exactly when the registry holds every name of
\* p.requiredMiddleware, mounted or not; otherwise it fails with the
\* missing-middleware error, whose message holds a missing name, and has
\* registered none of p's routes or handlers and invoked no install hook.
C24_RequiredMiddlewareByRegistration ==
    [][(/\ LoadStarts
        /\ \A dep \in Range(PluginDef(NewestCall.plugin).pluginDependencies) :
              dep \in plugins /\ dep \in loadedPlugins)
       => IF MissingRequired(NewestCall.plugin) = {}
          THEN /\ NewestCall.err = "none"
               /\ NewestCall.pc \in {"awaitInstall", "returned", "done"}
          ELSE /\ NewestCall.pc = "failed"
               /\ NewestCall.err = "missingMiddleware"
               /\ \E m \in MissingRequired(NewestCall.plugin) :
                     m \in Range(NewestMessage)
               /\ UNCHANGED <<routeCount, handlers, listeners, installCount,
                              installLog, loadedPlugins, plugins>>]_vars

\* P3, which requires m1, has passed hasMiddleware while m1 is registered
\* and was never mounted; an earlier loadPlugin(P3) failed for the missing m1.
C24_Witness ==
    /\ mounted = <<>>
    /\ HasMiddleware("m1")
    /\ \E i, j \in DOMAIN calls :
          /\ i < j
          /\ calls[i].plugin = "P3" /\ calls[i].err = "missingMiddleware"
          /\ calls[j].plugin = "P3" /\ calls[j].pc = "awaitInstall"

-----------------------------------------------------------------------------
(* Claims about shutdown, checked under SpecServer *)

IsShutdown(c) == c.kind = "shutdown"

\* A shutdownServer() call that has passed the status check and has neither
\* resolved nor rejected yet.
InProgress(c) == IsShutdown(c) /\ ~c.noop /\ c.pc \notin {"done", "failed"}

Did(c, what) == <<what, "", 0>> \in Range(c.trace)

Emitted(c, event) == <<"emit", event, 0>> \in Range(c.trace)

\* How many of the shutdowns in progress have emitted the event.
EmitCount(event) ==
    Cardinality({i \in DOMAIN calls : InProgress(calls[i]) /\ Emitted(calls[i], event)})

At(c, entry) == IndexOf(c.trace, entry)

\* Every handler of the event has been invoked by the call and has finished
\* (settled, or its error was caught) before position k of the call's trace.
HandlersCompletedBefore(c, event, k) ==
    \A h \in Range(EventHandlers(handlers, event)) :
        /\ At(c, <<"invoke", event, h.n>>) > 0
        /\ \/ /\ At(c, <<"settled", event, h.n>>) > At(c, <<"invoke", event, h.n>>)
              /\ At(c, <<"settled", event, h.n>>) < k
           \/ /\ At(c, <<"caught", event, h.n>>) > At(c, <<"invoke", event, h.n>>)
              /\ At(c, <<"caught", event, h.n>>) < k

DisconnectEnded(c, k) ==
    \/ /\ At(c, <<"disconnectedAll", "", 0>>) > At(c, <<"disconnectAll", "", 0>>)
       /\ At(c, <<"disconnectedAll", "", 0>>) < k
    \/ /\ At(c, <<"disconnectFailed", "", 0>>) > At(c, <<"disconnectAll", "", 0>>)
       /\ At(c, <<"disconnectFailed", "", 0>>) < k

\* C8: a shutdownServer() call that starts while an earlier call is still in
\* progress is a no-op (it emits nothing), and the shutdowns in progress
\* have together emitted beforeStop exactly once and afterStop at most once.
C8_SecondShutdownIsNoOp ==
    [][(/\ Len(calls') = Len(calls) + 1
        /\ IsShutdown(calls'[Len(calls')])
        /\ \E i \in DOMAIN calls : InProgress(calls[i]))
       => /\ calls'[Len(calls')].noop
          /\ calls'[Len(calls')].trace = <<>>
          /\ EmitCount("beforeStop")' = 1
          /\ EmitCount("afterStop")' <= 1]_vars

\* C9: every shutdown that is not a no-op goes in this order: all beforeStop
\* handlers are invoked and finish, then the listener is closed, then the
\* database is disconnected if (and only if) that is configured, then
\* afterStop is emitted and its handlers finish, and only then is the status
\* set to OFFLINE; the status is OFFLINE only after such a shutdown.
C9_ShutdownOrder ==
    /\ \A i \in DOMAIN calls :
        LET c == calls[i]
            close == At(c, <<"close", "", 0>>)
            disconnect == At(c, <<"disconnectAll", "", 0>>)
            after == At(c, <<"emit", "afterStop", 0>>)
            offline == At(c, <<"offline", "", 0>>)
        IN (IsShutdown(c) /\ ~c.noop) =>
            /\ At(c, <<"emit", "beforeStop", 0>>) = 1
            /\ close > 0 => HandlersCompletedBefore(c, "beforeStop", close)
            /\ disconnect > 0 => (close > 0 /\ close < disconnect /\ DisconnectsDatabase)
            /\ after > 0 => /\ close > 0 /\ close < after
                            /\ DisconnectsDatabase => (disconnect > 0 /\ DisconnectEnded(c, after))
            /\ offline > 0 => /\ after > 0 /\ after < offline
                              /\ HandlersCompletedBefore(c, "afterStop", offline)
            /\ c.pc = "done" <=> offline > 0
    /\ status = "OFFLINE" =>
           \E i \in DOMAIN calls : IsShutdown(calls[i]) /\ Did(calls[i], "offline")

C9_Witness ==
    \E i \in DOMAIN calls :
        /\ IsShutdown(calls[i]) /\ ~calls[i].noop /\ calls[i].pc = "done"
        /\ DisconnectsDatabase
        /\ status = "OFFLINE"
        /\ "afterStop" \in DOMAIN handlers
        /\ Len(calls[i].trace) >= 10

\* C10: a shutdown whose database disconnect failed never rejects, and the
\* step that ends it has emitted afterStop and sets the status to OFFLINE;
\* a shutdown whose listener close failed rejects with that error at the
\* callback, without disconnecting, emitting afterStop or setting OFFLINE.
C10_DisconnectSwallowedCloseThrown ==
    [][\A i \in DOMAIN calls :
        /\ (IsShutdown(calls[i]) /\ calls[i].pc = "disconnecting")
               => (calls'[i].pc \in {"disconnecting", "disconnected"} /\ calls'[i].err = "none")
        /\ (IsShutdown(calls[i]) /\ Did(calls[i], "disconnectFailed"))
               => /\ calls'[i].pc # "failed"
                  /\ calls'[i].err = "none"
                  /\ (calls[i].pc # "done" /\ calls'[i].pc = "done")
                         => (status' = "OFFLINE" /\ Emitted(calls'[i], "afterStop"))
        /\ (IsShutdown(calls[i]) /\ calls[i].pc = "closing" /\ calls[i].err # "none")
               => \/ calls'[i] = calls[i]
                  \/ /\ calls'[i].pc = "failed"
                     /\ calls'[i].err = calls[i].err
                     /\ calls'[i].trace = calls[i].trace
                     /\ status' = status
        /\ (IsShutdown(calls[i]) /\ calls[i].pc = "failed")
               => calls'[i] = calls[i]]_vars

C10_Witness ==
    /\ \E i \in DOMAIN calls :
        /\ IsShutdown(calls[i]) /\ Did(calls[i], "disconnectFailed")
        /\ calls[i].pc = "done" /\ status = "OFFLINE"
    /\ \E i \in DOMAIN calls :
        /\ IsShutdown(calls[i]) /\ calls[i].pc = "failed"
        /\ calls[i].err = "notRunning"

\* A shutdownServer() call that has set the status to SHUTTING_DOWN.
HasBegun(c) == IsShutdown(c) /\ ~c.noop

\* C34: once a shutdownServer() call has set the status to SHUTTING_DOWN the
\* status is never ONLINE again, not even when the HTTP server's 'listening'
\* event is delivered afterwards.
C34_NeverOnlineAfterShutdownBegan ==
    (\E i \in DOMAIN calls : HasBegun(calls[i])) => status # "ONLINE"

\* The step resolves the call at position i.
Resolves(i) ==
    /\ i \in DOMAIN calls'
    /\ IsShutdown(calls'[i])
    /\ calls'[i].pc = "done"
    /\ i \in DOMAIN calls => calls[i].pc # "done"

\* C35: at the step that resolves a shutdownServer() call the shutdown
\* sequence has finished: afterStop has been emitted and the status is
\* OFFLINE.
C35_ResolvedMeansFinished ==
    [][\A i \in DOMAIN calls' :
        Resolves(i) =>
            /\ status' = "OFFLINE"
            /\ \E j \in DOMAIN calls' :
                  IsShutdown(calls'[j]) /\ Emitted(calls'[j], "afterStop")]_vars

\* The call at position i has rejected with the error of server.close().
CloseFailed(c) == IsShutdown(c) /\ c.pc = "failed" /\ c.err = "notRunning"

\* C36: a shutdown whose listener close failed has not disconnected the
\* database and has not emitted afterStop, and from then on the status stays
\* SHUTTING_DOWN and every shutdownServer() call that starts is a no-op.
C36_CloseFailureLeavesShuttingDown ==
    [][(\E i \in DOMAIN calls : CloseFailed(calls[i])) =>
        /\ \A i \in DOMAIN calls :
              CloseFailed(calls[i]) =>
                 /\ ~Did(calls'[i], "disconnectAll")
                 /\ ~Emitted(calls'[i], "afterStop")
        /\ status = "SHUTTING_DOWN"
        /\ status' = "SHUTTING_DOWN"
        /\ (Len(calls') = Len(calls) + 1 /\ IsShutdown(calls'[Len(calls')]))
              => /\ calls'[Len(calls')].noop
                 /\ calls'[Len(calls')].trace = <<>>]_vars

-----------------------------------------------------------------------------
(* Claims about the event engine, checked under SpecEvent *)

IsEmitAsync(c) == c.kind = "emitAsync"

\* The handlers a call has invoked, in order, by their numbers.
InvokedNs(c) ==
    LET invokes == SelectSeq(c.trace, LAMBDA e : e[1] = "invoke")
    IN [j \in DOMAIN invokes |-> invokes[j][3]]

Ns(entries) == [j \in DOMAIN entries |-> entries[j].n]

Live(entries) == Range(entries) \ {Empty}

\* The position a call had before a step (a call the step adds: "start").
PcBefore(i) == IF i \in DOMAIN calls THEN calls[i].pc ELSE "start"

\* The call iterates a Set that clearHandlers() has taken out of the Map.
IsOrphaned(c) == c.cursor = Orphaned

\* C11: emitAsync invokes the handlers one at a time in registration order:
\* in a call's trace every invocation is followed at once by the end of the
\* same handler before the next invocation, the last invocation of a pending
\* call is the handler it awaits, a resolved call has no invocation pending,
\* and while nothing has been removed from the Set the call iterates the
\* handlers invoked are a prefix of the Set in registration order.
C11_SequentialInOrder ==
    \A i \in DOMAIN calls :
        LET c == calls[i]
            t == c.trace
        IN IsEmitAsync(c) =>
            /\ \A j \in DOMAIN t :
                 t[j][1] = "invoke" =>
                    IF j = Len(t)
                    THEN c.pc \in EvEvents /\ c.awaits.n = t[j][3]
                    ELSE t[j + 1][1] \in {"settled", "caught"} /\ t[j + 1][3] = t[j][3]
            /\ c.pc \notin EvEvents => (t = <<>> \/ t[Len(t)][1] # "invoke")
            /\ \A event \in EvEvents :
                 (c.pc = event
                    /\ event \in DOMAIN handlers
                    /\ ~IsOrphaned(c)
                    /\ Empty \notin Range(EventHandlers(handlers, event)))
                 => IsPrefix(InvokedNs(c), Ns(EventHandlers(handlers, event)))

C11_Witness ==
    \E i \in DOMAIN calls :
        /\ IsEmitAsync(calls[i]) /\ calls[i].pc = "xDone"
        /\ Len(calls[i].trace) = 4
        /\ calls[i].trace[1] = <<"invoke", "x", 1>>
        /\ calls[i].trace[3][1] = "invoke"

\* C12: an emitAsync in which a handler threw or rejected never rejects, and
\* when it resolves every handler then in the Set it iterates (the event's
\* Set, unless clearHandlers() has dropped that) has been invoked by it.
C12_FailureDoesNotStopEmitAsync ==
    [][\A i \in DOMAIN calls' :
        (IsEmitAsync(calls'[i])
           /\ \E e \in Range(calls'[i].trace) : e[1] = "caught")
        => /\ calls'[i].err = "none"
           /\ calls'[i].pc \in {"x", "xDone"}
           /\ (/\ PcBefore(i) # "xDone" /\ calls'[i].pc = "xDone"
               /\ i \in DOMAIN calls => ~IsOrphaned(calls[i]))
                 => \A h \in Live(EventHandlers(handlers, "x")) :
                        h.n \in Range(InvokedNs(calls'[i]))]_vars

C12_Witness ==
    \E i \in DOMAIN calls :
        /\ IsEmitAsync(calls[i]) /\ calls[i].pc = "xDone"
        /\ Len(calls[i].trace) = 4
        /\ calls[i].trace[2][1] = "caught"
        /\ calls[i].trace[3][1] = "invoke"

\* C15: registering a handler twice is a no-op: an emit and an emitAsync
\* invoke no handler more than once, and an emit invokes only handlers that
\* are in the event's Set (none that off() has removed).
C15_DuplicateOnIsNoOp ==
    [][\A i \in DOMAIN calls' \ DOMAIN calls :
        /\ \A j, k \in DOMAIN InvokedNs(calls'[i]) :
              InvokedNs(calls'[i])[j] = InvokedNs(calls'[i])[k] => j = k
        /\ calls'[i].kind = "emit"
              => \A n \in Range(InvokedNs(calls'[i])) :
                    \E h \in Live(EventHandlers(handlers, "x")) : h.n = n]_vars

\* C27: off(e, h) is idempotent: in every state and for every handler h, a
\* second off(e, h) changes nothing the first one left (neither the event's
\* Set nor what an emit would call), and an off(e, h) for a handler that is
\* not in the event's Set, or for an event without a Set, changes nothing.
C27_OffIsIdempotent ==
    \A event \in EvEvents, h \in EvHandlers :
        LET hs1 == OffHandlers(handlers, event, h)
            ls1 == OffListeners(handlers, listeners, event, h)
            hs2 == OffHandlers(hs1, event, h)
            ls2 == OffListeners(hs1, ls1, event, h)
        IN /\ Live(EventHandlers(hs2, event)) = Live(EventHandlers(hs1, event))
           /\ ls2 = ls1
           /\ h \notin Live(EventHandlers(handlers, event))
                 => /\ Live(EventHandlers(hs1, event))
                          = Live(EventHandlers(handlers, event))
                    /\ ls1 = listeners

\* C31: an emit invokes every handler that is in the event's Set, the
\* handlers in their registration order, also when one of them throws.
C31_EmitInvokesAllInOrder ==
    [][\A i \in DOMAIN calls' \ DOMAIN calls :
        calls'[i].kind = "emit" =>
           LET invoked    == InvokedNs(calls'[i])
               registered == SelectSeq(EventHandlers(handlers, "x"),
                                       LAMBDA h : h # Empty)
           IN /\ \A h \in Range(registered) : h.n \in Range(invoked)
              /\ \A j, k \in DOMAIN registered :
                    j < k =>
                       \E a, b \in DOMAIN invoked :
                          /\ a < b
                          /\ invoked[a] = registered[j].n
                          /\ invoked[b] = registered[k].n]_vars

\* The handlers a step makes the call at position i invoke, in order.
NewInvocations(i) ==
    InvokedNs([trace |-> SubSeq(calls'[i].trace, Len(calls[i].trace) + 1,
                                Len(calls'[i].trace))])

\* C40: when an emitAsync that awaits a handler goes on, it invokes only
\* handlers that are in the event's Set at that moment (none that off() has
\* removed before its turn), and when it resolves it has invoked every
\* handler then in the Set, those that on() added during the await after
\* the handler it awaited.
C40_OnOffDuringEmitAsync ==
    [][\A i \in DOMAIN calls :
        (IsEmitAsync(calls[i]) /\ calls[i].pc = "x" /\ calls'[i] # calls[i]) =>
           LET entries == EventHandlers(handlers, "x")
               later   == SubSeq(entries, calls[i].cursor + 1, Len(entries))
           IN /\ \A n \in Range(NewInvocations(i)) :
                    \E h \in Live(entries) : h.n = n
              /\ calls'[i].pc = "xDone" =>
                    /\ \A h \in Live(entries) :
                          h.n \in Range(InvokedNs(calls'[i]))
                    /\ \A h \in Live(later) :
                          h.n \in Range(NewInvocations(i))]_vars

-----------------------------------------------------------------------------
(* Claims about startup, checked under SpecStart *)

\* C13: the plugins' beforeStart hooks run one after the other in the order
\* of the plugin registry: while a hook runs, no hook of a plugin registered
\* later has been started.
C13_BeforeStartHooksSequential ==
    \A i, j \in Hooks : i < j => calls[i].pc # "running"

\* C14: once listen() has been called every installed plugin's beforeStart
\* hook has been started and has completed, resolved or rejected.
C14_ListenAfterBeforeStartHooks ==
    listening # "no" =>
        /\ \A i \in Hooks : calls[i].pc # "running"
        /\ \A p \in Range(pluginRegistry) :
              PluginDef(p).beforeStart
                  => \E i \in Hooks : calls[i].plugin = p

CategoryOf(name) == (CHOOSE m \in Range(registry) : m.name = name).category

MountCount(name) == Cardinality({k \in DOMAIN mounted : mounted[k].name = name})

\* C16: when initialize() has returned, every enabled descriptor in the
\* registry, whatever its category, has been mounted exactly once, those of
\* security before those of parser.
C16_EveryCategoryAppliedOnce ==
    calls[1].pc = "done" =>
        /\ \A k \in DOMAIN registry :
              IsEnabled(registry[k]) => MountCount(registry[k].name) = 1
        /\ \A j, k \in DOMAIN mounted :
              (/\ CategoryOf(mounted[j].name) = "security"
               /\ CategoryOf(mounted[k].name) = "parser") => j < k

\* The number of route definitions the installed plugins supply for a prefix.
RECURSIVE Supplied(_, _)
Supplied(reg, prefix) ==
    IF reg = <<>> THEN 0
    ELSE RouteCountOf(RegisterPluginRoutes(<<>>, PluginDef(Head(reg)).routes), prefix)
         + Supplied(Tail(reg), prefix)

\* C17: when initialize() has returned, the route count of every prefix the
\* plugins supply routes for equals the number of definitions supplied.
C17_PluginRoutesMountedOnce ==
    calls[1].pc = "done" =>
        \A prefix \in {"/p1"} :
            RouteCountOf(routeCount, prefix) = Supplied(pluginRegistry, prefix)

\* The descriptors the installed plugins return from registerMiddleware().
SuppliedMiddleware ==
    UNION {Range(PluginDef(p).middleware) : p \in Range(pluginRegistry)}

\* C37: once the server has been told to listen, every enabled descriptor
\* that an installed plugin supplies through registerMiddleware() has been
\* mounted on the application.
C37_PluginMiddlewareMountedBeforeListen ==
    listening # "no" =>
        \A m \in SuppliedMiddleware :
            IsEnabled(m) => MountCount(m.name) >= 1

-----------------------------------------------------------------------------
(* Claims about the presets, checked under SpecPreset *)

PresetPriority(name) ==
    (CHOOSE m \in Range(AllPresets) : m.name = name).priority[1]

\* C19: the handlers one applyCategory call mounts are in descending
\* priority; so the security category mounts helmet, cors and the parser
\* category applied after it json-parser, urlencoded-parser, cookie-parser,
\* method-override, six handlers in exactly this order.
C19_MountedByDescendingPriority ==
    [][LET added == SubSeq(mounted', Len(mounted) + 1, Len(mounted')) IN
       /\ IsPrefix(mounted, mounted')
       /\ \A j, k \in DOMAIN added :
             j < k => PresetPriority(added[j].name) > PresetPriority(added[k].name)
       /\ (mounted = <<>> /\ Len(added) = 2)
             => Names(added) = <<"helmet", "cors">>
       /\ (Names(mounted) = <<"helmet", "cors">> /\ Len(added) = 4)
             => Names(mounted') = <<"helmet", "cors", "json-parser",
                                    "urlencoded-parser", "cookie-parser",
                                    "method-override">>]_vars

C19_Witness ==
    /\ Names(mounted) = <<"helmet", "cors", "json-parser", "urlencoded-parser",
                          "cookie-parser", "method-override">>
    /\ registry[1].name = "method-override"
    /\ registry[2].name = "cors"


-----------------------------------------------------------------------------
(* Claims about the route wrapper, checked under SpecRoute *)

\* The errors the wrapper itself has passed to the continuation.
PassedByWrapper(r) ==
    LET own == SelectSeq(r.continued, LAMBDA c : c.by = "wrapper")
    IN [k \in DOMAIN own |-> own[k].err]

Fails(r) == r.handler.does \in {"throws", "rejects", "nextThenThrows"}

\* C33: no error leaves the wrapper; when the terminal handler has thrown
\* or its promise has rejected the wrapper has passed exactly that error to
\* the continuation, once; before that, and for a handler that does not
\* fail, the wrapper has passed nothing.
C33_WrapperForwardsErrorOnce ==
    \A i \in DOMAIN requests :
        LET r == requests[i] IN
        /\ r.escaped = "none"
        /\ PassedByWrapper(r) = IF Fails(r) /\ r.pc = "done"
                                 THEN <<r.handler.err>> ELSE <<>>

C33_Witness ==
    \E i, j \in DOMAIN requests :
        /\ requests[i].handler.does = "rejects" /\ requests[i].pc = "done"
        /\ requests[j].handler.does = "throws"
        /\ PassedByWrapper(requests[i]) = <<requests[i].handler.err>>
        /\ PassedByWrapper(requests[j]) = <<requests[j].handler.err>>


-----------------------------------------------------------------------------
(* Claims about the database adapter, checked under SpecAdapter *)

\* The connections of a service that are open.
Opened(service) ==
    {n \in DOMAIN created : created[n].service = service /\ created[n].phase = "open"}

\* C39: for every service at most one connection is open at a time, whether
\* or not an earlier connect() had finished when the next was called, and a
\* connect() that returns returns the connection the adapter then keeps for
\* the service, the one it already kept if it kept one.
C39_OneConnectionPerService ==
    [][\A service \in Services :
         /\ Cardinality(Opened(service)') <= 1
         /\ \A i \in DOMAIN connects' :
               (/\ connects'[i].service = service
                /\ connects'[i].pc = "returned"
                /\ i \in DOMAIN connects => connects[i].pc # "returned")
                  => /\ connects'[i].connection = ConnectionsGet(connections', service)
                     /\ ConnectionsHas(connections, service)
                           => connects'[i].connection = ConnectionsGet(connections, service)]_vars


-----------------------------------------------------------------------------
(* Claims about the graceful-shutdown plugin, checked under SpecSignalLive *)

\* C38: once the plugin has received a signal, whatever the status of the
\* server was at that moment, eventually the status is OFFLINE or the
\* process has exited.
C38_SignalLeadsToOfflineOrExit ==
    shuttingDown ~> (status = "OFFLINE" \/ exited)

=============================================================================
